---- MODULE Spec2Model ----
(***************************************************************************)
(* Qbot / ChatCat: the session gate (POST /api/chatbots/:id/sessions) and  *)
(* the teacher's manage-attempts reset, over the shared student_sessions   *)
(* table, and the AI goal evaluation (POST /api/ai/evaluate-goals) over    *)
(* student_goal_responses.  Every await on the data store or on the LLM is *)
(* one step of a request.                                                  *)
(***************************************************************************)
EXTENDS Integers, FiniteSets, Sequences, TLC

\* ---- bounds of the model ----
MaxSessions == 3      \* rows ever inserted into student_sessions
MaxLimit == 2         \* largest max_attempts a chatbot is configured with
MaxResults == 2       \* longest array of evaluations the LLM returns
MaxStudentRows == 4   \* rows ever held by the students table of the imports
MaxUploads == 3       \* reference files ever sent to the storage bucket

\* ---- optional values: null is the empty set, a value v is {v} ----
Null == {}
Some(v) == {v}
IsNull(o) == o = {}
Val(o) == CHOOSE v \in o : TRUE

\* ---- the stored data the handlers read ----
Students == {"s1", "s2"}
Teachers == {"t1", "t2"}
Chatbots == {"c1", "c2"}
Classes == {"A", "B"}
Requests == {"r1", "r2"}

\* auth users that can present a valid student token; "u0" has no profile row
AuthUsers == Students \cup {"u0"}

\* profiles(id, class_id)
profiles == [s \in Students |-> [id |-> s, class_id |-> IF s = "s1" THEN Some("A") ELSE Null]]

\* students(id, teacher_id, class_name)
students == [s \in Students |-> [id |-> s, teacher_id |-> "t1",
                                  class_name |-> IF s = "s1" THEN Some("A") ELSE Null]]

\* chatbots.teacher_id
ChatbotOwner == [c \in Chatbots |-> IF c = "c1" THEN "t1" ELSE "t2"]

\* allowed_classes: string[] | null.  An array (also the empty one) is a value.
NullArray == [null |-> TRUE, items |-> {}]
Array(S) == [null |-> FALSE, items |-> S]

\* createChatbotSchema / updateChatbotSchema: max_attempts is null or an int >= 0,
\* allowed_classes is an array of strings (default []) or, in older rows, null
MaxAttemptsValues == {Null} \cup {Some(n) : n \in 0..MaxLimit}
AllowedClassesValues == {NullArray, Array({}), Array({"A"}), Array({"B"})}

VARIABLES
    chatbots,          \* chatbots table: id -> [max_attempts, allowed_classes, teacher_id]
    student_sessions,  \* set of rows [id, student_id, chatbot_id]
    nextId,            \* id the next inserted row gets
    gate,              \* gate requests: slot -> local state, then the response
    reset,             \* the manage-attempts request: local state, then the response
    lastAttempts,      \* current_attempts of the latest 201 per (student, chatbot) since its last reset, 0: none
    lastReset,         \* the latest scope=student reset not yet followed by a gate call of its pair
    observeResets,     \* whether lastReset is recorded in this run (it never changes)
    student_goal_responses,  \* set of rows [student_id, chatbot_id, goal_id, evaluated_by_ai, evaluation_comment, checked_by_student]
    evaluation,        \* the evaluate-goals request: local state, then the response
    goals,             \* the goals listing request: the response
    selfcheck,         \* the student-goal-responses request: the response
    auth_users,        \* auth.users: set of user ids
    profile_rows,      \* profiles rows of created students: [user_id, student_id_number, class_id]
    creation,          \* the create-student request: local state, then the result
    deletion,          \* the delete-student request: local state, then the response
    student_rows,      \* students rows: [id, teacher_id, student_number, password]
    imports,           \* the bulk import requests: slot -> local state, then the response
    login,             \* the student login request: the response
    slugs,             \* chatbots.custom_link_slug: chatbot id -> slug or null
    slugReq,           \* the create / update chatbot requests: slot -> local state, then the response
    reference_files,   \* chatbot_references rows
    storage,           \* objects of the storage bucket
    upload             \* the reference upload request: local state, then the response

gateVars == <<chatbots, student_sessions, nextId, gate, reset, lastAttempts, lastReset, observeResets>>
evalVars == <<student_goal_responses, evaluation>>
goalsVars == <<goals>>
checkVars == <<selfcheck>>
accountVars == <<auth_users, profile_rows, creation, deletion>>
studentVars == <<student_rows, imports, login>>
botVars == <<slugs, slugReq, reference_files, storage, upload>>
moreVars == <<goalsVars, checkVars, accountVars, studentVars, botVars>>
vars == <<gateVars, evalVars, moreVars>>

\* what the actions of one handler leave alone besides the gate's and the evaluation's state
exceptGoals == <<checkVars, accountVars, studentVars, botVars>>
exceptCheck == <<goalsVars, accountVars, studentVars, botVars>>
exceptAccounts == <<goalsVars, checkVars, studentVars, botVars>>
exceptStudents == <<goalsVars, checkVars, accountVars, botVars>>
exceptBots == <<goalsVars, checkVars, accountVars, studentVars>>

\* ---- the gate: POST /api/chatbots/:chatbotId/sessions ----

IdleGate ==
    [pc |-> "idle", user |-> Null, chatbotId |-> "", studentId |-> Null,
     studentClassId |-> Null, maxAttempts |-> Null, currentUsageCount |-> 0,
     status |-> 0, reason |-> "", storeErr |-> FALSE, session |-> Null,
     current_attempts |-> 0, max_attempts |-> Null, prevAttempts |-> 0,
     afterReset |-> Null,
     calls |-> <<>>]

\* a request that has awaits left
GateInFlight(r) == gate[r].pc \in {"count", "insert"}

\* a handler has built its response and is returning it; returning touches no
\* shared state, so it is scheduled before any other handler's next step
Responding == reset.pc = "done" \/ \E r \in Requests : gate[r].pc = "done"

\* return new NextResponse(..., { status }) on a path that creates no session
GateDeny(g, st, why, err) ==
    [g EXCEPT !.pc = "done", !.status = st, !.reason = why, !.storeErr = err]

\* JS truthiness of chatbot.allowed_classes: null is falsy, every array is truthy
Truthy(allowed) == ~allowed.null

\* variant: the membership test is left out
ClassCheckNoMembership(allowed, classId) ==
    IF Truthy(allowed) /\ ~IsNull(classId)
    THEN "ok"
    ELSE IF Truthy(allowed) THEN "ClassInfoMissing" ELSE "ok"

\* variant: a student without a class falls through to the quota check
ClassCheckNoClassPasses(allowed, classId) ==
    IF Truthy(allowed) /\ ~IsNull(classId)
    THEN IF Val(classId) \notin allowed.items THEN "ClassNotAllowed" ELSE "ok"
    ELSE "ok"

\* the class-allowlist check
ClassCheck(allowed, classId) ==
    IF Truthy(allowed) /\ ~IsNull(classId)
    THEN IF Val(classId) \notin allowed.items THEN "ClassNotAllowed" ELSE "ok"
    ELSE IF Truthy(allowed) THEN "ClassInfoMissing" ELSE "ok"

\* variant: only a positive limit is checked (0 treated as unlimited)
QuotaAppliesPositive(maxAttempts) == ~IsNull(maxAttempts) /\ Val(maxAttempts) > 0

\* if (maxAttempts !== null && maxAttempts >= 0)
QuotaApplies(maxAttempts) == ~IsNull(maxAttempts) /\ Val(maxAttempts) >= 0

\* variant: off by one, > for >=
LimitReachedOffByOne(maxAttempts, count) == Val(maxAttempts) = 0 \/ count > Val(maxAttempts)

\* if (maxAttempts === 0 || currentUsageCount >= maxAttempts)
LimitReached(maxAttempts, count) == Val(maxAttempts) = 0 \/ count >= Val(maxAttempts)

\* select('*', { count: 'exact', head: true }).eq('student_id', s).eq('chatbot_id', c)
SessionsOf(rows, s, c) == {row \in rows : row.student_id = s /\ row.chatbot_id = c}
CountSessions(rows, s, c) == Cardinality(SessionsOf(rows, s, c))

\* variant: the new session is not counted
CurrentAttemptsNoIncrement(count) == count

\* current_attempts: currentUsageCount + 1
CurrentAttempts(count) == count + 1

\* variant: the chatbot is looked up before the profile
GateLookupsChatbotFirst(g0, token, profErr, botErr) ==
    IF token = "none"
    THEN GateDeny(g0, 401, "Unauthenticated", FALSE)
    ELSE IF token = "invalid"
    THEN GateDeny([g0 EXCEPT !.calls = <<"auth">>], 401, "Unauthenticated", FALSE)
    ELSE LET g1 == [g0 EXCEPT !.user = Some(token), !.calls = <<"auth", "chatbots">>]
             cid == g0.chatbotId IN
         IF botErr \/ cid \notin DOMAIN chatbots
         THEN GateDeny(g1, 404, "ChatbotNotFound", botErr)
         ELSE LET g2 == [g1 EXCEPT !.calls = Append(@, "profiles")] IN
              IF profErr \/ token \notin DOMAIN profiles
              THEN GateDeny(g2, 403, "ProfileNotFound", profErr)
              ELSE LET g3 == [g2 EXCEPT !.studentId = Some(profiles[token].id),
                                        !.studentClassId = profiles[token].class_id]
                       verdict == ClassCheck(chatbots[cid].allowed_classes, g3.studentClassId)
                       maxAttempts == chatbots[cid].max_attempts IN
                   IF verdict # "ok"
                   THEN GateDeny(g3, 403, verdict, FALSE)
                   ELSE [g3 EXCEPT !.maxAttempts = maxAttempts,
                                   !.pc = IF QuotaApplies(maxAttempts) THEN "count" ELSE "insert"]

\* steps 1-3 and the class check: the token, the profile and the chatbot are
\* read in this order from rows no modelled handler writes; the first failing
\* lookup answers.  profErr / botErr: the data store reports an error.
GateLookups(g0, token, profErr, botErr) ==
    IF token = "none"
    THEN GateDeny(g0, 401, "Unauthenticated", FALSE)
    ELSE IF token = "invalid"
    THEN GateDeny([g0 EXCEPT !.calls = <<"auth">>], 401, "Unauthenticated", FALSE)
    ELSE LET g1 == [g0 EXCEPT !.user = Some(token), !.calls = <<"auth", "profiles">>] IN
         IF profErr \/ token \notin DOMAIN profiles
         THEN GateDeny(g1, 403, "ProfileNotFound", profErr)
         ELSE LET g2 == [g1 EXCEPT !.studentId = Some(profiles[token].id),
                                   !.studentClassId = profiles[token].class_id,
                                   !.calls = Append(@, "chatbots")]
                  cid == g0.chatbotId IN
              IF botErr \/ cid \notin DOMAIN chatbots
              THEN GateDeny(g2, 404, "ChatbotNotFound", botErr)
              ELSE LET verdict == ClassCheck(chatbots[cid].allowed_classes, g2.studentClassId)
                       maxAttempts == chatbots[cid].max_attempts IN
                   IF verdict # "ok"
                   THEN GateDeny(g2, 403, verdict, FALSE)
                   ELSE [g2 EXCEPT !.maxAttempts = maxAttempts,
                                   !.pc = IF QuotaApplies(maxAttempts) THEN "count" ELSE "insert"]

\* this call is the first by the student for the chatbot since the pair's reset
IsFirstAfterReset(token, cid) ==
    /\ ~IsNull(lastReset)
    /\ Val(lastReset).student_id = token
    /\ Val(lastReset).chatbot_id = cid

GateStart(r) ==
    /\ ~Responding
    /\ gate[r].pc = "idle"
    /\ nextId + Cardinality({q \in Requests : GateInFlight(q)}) <= MaxSessions
    /\ \E token \in {"none", "invalid"} \cup AuthUsers, cid \in Chatbots \cup {"cx"},
          profErr \in BOOLEAN, botErr \in BOOLEAN :
         LET first == IsFirstAfterReset(token, cid) IN
         /\ gate' = [gate EXCEPT ![r] =
                GateLookups([IdleGate EXCEPT !.chatbotId = cid,
                                             !.afterReset = IF first THEN lastReset ELSE Null],
                            token, profErr, botErr)]
         /\ lastReset' = IF first THEN Null ELSE lastReset
    /\ UNCHANGED <<chatbots, student_sessions, nextId, reset, lastAttempts, observeResets, evalVars, moreVars>>

\* variant: a failed count is read as no usage and the request goes on to insert
GateCountIgnoresError(r) ==
    /\ ~Responding
    /\ gate[r].pc = "count"
    /\ \E err \in BOOLEAN :
         LET g == [gate[r] EXCEPT !.calls = Append(@, "count"), !.storeErr = err]
             count == IF err THEN 0
                      ELSE CountSessions(student_sessions, Val(g.studentId), g.chatbotId) IN
         gate' = [gate EXCEPT ![r] =
            IF LimitReached(g.maxAttempts, count)
            THEN GateDeny([g EXCEPT !.currentUsageCount = count], 429, "QuotaExceeded", err)
            ELSE [g EXCEPT !.currentUsageCount = count, !.pc = "insert"]]
    /\ UNCHANGED <<chatbots, student_sessions, nextId, reset, lastAttempts, lastReset, observeResets, evalVars, moreVars>>

\* steps 5-6: count the student's sessions of the chatbot and compare with the limit
GateCount(r) ==
    /\ ~Responding
    /\ gate[r].pc = "count"
    /\ \E err \in BOOLEAN :
         LET g == [gate[r] EXCEPT !.calls = Append(@, "count")]
             count == CountSessions(student_sessions, Val(g.studentId), g.chatbotId) IN
         gate' = [gate EXCEPT ![r] =
            IF err
            THEN GateDeny(g, 500, "CountFailed", TRUE)
            ELSE IF LimitReached(g.maxAttempts, count)
            THEN GateDeny([g EXCEPT !.currentUsageCount = count], 429, "QuotaExceeded", FALSE)
            ELSE [g EXCEPT !.currentUsageCount = count, !.pc = "insert"]]
    /\ UNCHANGED <<chatbots, student_sessions, nextId, reset, lastAttempts, lastReset, observeResets, evalVars, moreVars>>

\* variant: the two columns are swapped
NewSessionSwapped(id, s, c) == [id |-> id, student_id |-> c, chatbot_id |-> s]

\* insert({ student_id: studentId, chatbot_id: chatbotId })
NewSession(id, s, c) == [id |-> id, student_id |-> s, chatbot_id |-> c]

\* steps 7-8: insert the session row and answer 201
GateInsert(r) ==
    /\ ~Responding
    /\ gate[r].pc = "insert"
    /\ \E err \in BOOLEAN :
         LET g == [gate[r] EXCEPT !.calls = Append(@, "insert")]
             s == Val(g.studentId)
             c == g.chatbotId
             newSession == NewSession(nextId, s, c) IN
         IF err
         THEN /\ gate' = [gate EXCEPT ![r] = GateDeny(g, 500, "InsertFailed", TRUE)]
              /\ UNCHANGED <<student_sessions, nextId, lastAttempts>>
         ELSE /\ student_sessions' = student_sessions \cup {newSession}
              /\ nextId' = nextId + 1
              /\ gate' = [gate EXCEPT ![r] =
                    [g EXCEPT !.pc = "done", !.status = 201, !.reason = "Created",
                              !.session = Some(newSession),
                              !.current_attempts = CurrentAttempts(g.currentUsageCount),
                              !.max_attempts = g.maxAttempts,
                              !.prevAttempts = lastAttempts[s][c]]]
              /\ lastAttempts' = [lastAttempts EXCEPT ![s][c] = CurrentAttempts(g.currentUsageCount)]
    /\ UNCHANGED <<chatbots, reset, lastReset, observeResets, evalVars, moreVars>>

\* the response is returned; the handler's locals are gone
GateRespond(r) ==
    /\ gate[r].pc = "done"
    /\ gate' = [gate EXCEPT ![r] = IdleGate]
    /\ UNCHANGED <<chatbots, student_sessions, nextId, reset, lastAttempts, lastReset, observeResets, evalVars, moreVars>>

\* ---- the reset: POST /api/teacher/chatbots/:chatbotId/manage-attempts ----

IdleReset ==
    [pc |-> "idle", user |-> Null, chatbotId |-> "", scope |-> "",
     studentId |-> Null, className |-> Null, studentIds |-> {}, status |-> 0,
     storeErr |-> FALSE]

ResetInFlight == reset.pc \in {"students", "delete"}

\* request bodies: scope, optional studentId, optional className
Bodies ==
    [scope : {"student", "class", "chatbot", "other"},
     studentId : {Null} \cup {Some(s) : s \in Students},
     className : {Null} \cup {Some(k) : k \in Classes}]

\* variant: the refinement is left out, only the enum is checked
manageAttemptsSchemaNoRefine(body) == body.scope \in {"student", "class", "chatbot"}

\* manageAttemptsSchema: the enum of scopes and the refinement
manageAttemptsSchema(body) ==
    /\ body.scope \in {"student", "class", "chatbot"}
    /\ ~(body.scope = "student" /\ IsNull(body.studentId))
    /\ ~(body.scope = "class" /\ IsNull(body.className))

\* variant: scope=student keeps the student's rows and deletes the others'
DeleteFilterInverted(q, row) ==
    /\ row.chatbot_id = q.chatbotId
    /\ q.scope = "student" => row.student_id # Val(q.studentId)
    /\ q.scope = "class" => row.student_id \in q.studentIds

\* variant: the .eq('chatbot_id', chatbotId) filter is left out
DeleteFilterAnyChatbot(q, row) ==
    /\ q.scope = "student" => row.student_id = Val(q.studentId)
    /\ q.scope = "class" => row.student_id \in q.studentIds

\* variant: scope=student deletes the rows of every student of the chatbot
DeleteFilterAllStudents(q, row) ==
    /\ row.chatbot_id = q.chatbotId
    /\ q.scope = "class" => row.student_id \in q.studentIds

\* variant: scope=chatbot is filtered by the (empty) list of class students
DeleteFilterChatbotAsClass(q, row) ==
    /\ row.chatbot_id = q.chatbotId
    /\ q.scope = "student" => row.student_id = Val(q.studentId)
    /\ q.scope \in {"class", "chatbot"} => row.student_id \in q.studentIds

\* the rows the delete query selects:
\* .eq('chatbot_id', chatbotId), then .eq('student_id', ..) or .in('student_id', ..)
DeleteFilter(q, row) ==
    /\ row.chatbot_id = q.chatbotId
    /\ q.scope = "student" => row.student_id = Val(q.studentId)
    /\ q.scope = "class" => row.student_id \in q.studentIds

\* the (student, chatbot) pairs the delete query covers
Covered(q, s, c) == DeleteFilter(q, [id |-> 0, student_id |-> s, chatbot_id |-> c])

ResetAnswer(q, st, err) == [q EXCEPT !.pc = "done", !.status = st, !.storeErr = err]

\* variant: the ownership check is left out
ResetChecksNoOwner(q0, who, botErr, body) ==
    IF who = "none"
    THEN ResetAnswer(q0, 401, FALSE)
    ELSE LET q1 == [q0 EXCEPT !.user = Some(who)] IN
         IF botErr \/ q0.chatbotId \notin DOMAIN chatbots
         THEN ResetAnswer(q1, 404, botErr)
         ELSE IF ~manageAttemptsSchema(body)
         THEN ResetAnswer([q1 EXCEPT !.scope = body.scope], 400, FALSE)
         ELSE [q1 EXCEPT
                 !.pc = IF body.scope = "class" THEN "students" ELSE "delete",
                 !.scope = body.scope,
                 !.studentId = IF body.scope = "student" THEN body.studentId ELSE Null,
                 !.className = IF body.scope = "class" THEN body.className ELSE Null]

\* steps 1-3: the requester, the ownership check on the stored chatbot, then the
\* body is parsed and validated; the fields the handler reads afterwards are kept
ResetChecks(q0, who, botErr, body) ==
    IF who = "none"
    THEN ResetAnswer(q0, 401, FALSE)
    ELSE LET q1 == [q0 EXCEPT !.user = Some(who)] IN
         IF botErr \/ q0.chatbotId \notin DOMAIN chatbots
         THEN ResetAnswer(q1, 404, botErr)
         ELSE IF chatbots[q0.chatbotId].teacher_id # who
         THEN ResetAnswer(q1, 403, FALSE)
         ELSE IF ~manageAttemptsSchema(body)
         THEN ResetAnswer([q1 EXCEPT !.scope = body.scope], 400, FALSE)
         ELSE [q1 EXCEPT
                 !.pc = IF body.scope = "class" THEN "students" ELSE "delete",
                 !.scope = body.scope,
                 !.studentId = IF body.scope = "student" THEN body.studentId ELSE Null,
                 !.className = IF body.scope = "class" THEN body.className ELSE Null]

ResetStart ==
    /\ ~Responding
    /\ reset.pc = "idle"
    /\ \E who \in {"none"} \cup Teachers, cid \in Chatbots \cup {"cx"},
          botErr \in BOOLEAN, body \in Bodies :
         reset' = ResetChecks([IdleReset EXCEPT !.chatbotId = cid], who, botErr, body)
    /\ UNCHANGED <<chatbots, student_sessions, nextId, gate, lastAttempts, lastReset, observeResets, evalVars, moreVars>>

\* variant: the .eq('teacher_id', user.id) filter is left out
ClassStudentsAnyTeacher(teacher, className) ==
    {students[s].id : s \in {x \in DOMAIN students : students[x].class_name = className}}

\* students.select('id').eq('teacher_id', user.id).eq('class_name', className)
ClassStudents(teacher, className) ==
    {students[s].id : s \in {x \in DOMAIN students :
                                /\ students[x].teacher_id = teacher
                                /\ students[x].class_name = className}}

\* scope=class: the ids of the teacher's students of the class are fetched
ResetStudents ==
    /\ ~Responding
    /\ reset.pc = "students"
    /\ \E err \in BOOLEAN :
         LET found == ClassStudents(Val(reset.user), reset.className) IN
         reset' =
            IF err
            THEN ResetAnswer(reset, 500, TRUE)
            ELSE IF found # {}
            THEN [reset EXCEPT !.pc = "delete", !.studentIds = found]
            ELSE ResetAnswer(reset, 200, FALSE)
    /\ UNCHANGED <<chatbots, student_sessions, nextId, gate, lastAttempts, lastReset, observeResets, evalVars, moreVars>>

\* await deleteQuery
ResetDelete ==
    /\ ~Responding
    /\ reset.pc = "delete"
    /\ \E err \in BOOLEAN :
         IF err
         THEN /\ reset' = ResetAnswer(reset, 500, TRUE)
              /\ UNCHANGED <<student_sessions, lastAttempts, lastReset>>
         ELSE /\ reset' = ResetAnswer(reset, 200, FALSE)
              /\ student_sessions' = {row \in student_sessions : ~DeleteFilter(reset, row)}
              /\ lastAttempts' = [s \in Students |-> [c \in Chatbots |->
                    IF Covered(reset, s, c) THEN 0 ELSE lastAttempts[s][c]]]
              /\ lastReset' =
                    IF observeResets /\ reset.scope = "student"
                    THEN Some([student_id |-> Val(reset.studentId), chatbot_id |-> reset.chatbotId,
                               deleted |-> CountSessions(student_sessions, Val(reset.studentId),
                                                         reset.chatbotId)])
                    ELSE lastReset
    /\ UNCHANGED <<chatbots, nextId, gate, observeResets, evalVars, moreVars>>

\* the response is returned
ResetRespond ==
    /\ reset.pc = "done"
    /\ reset' = IdleReset
    /\ UNCHANGED <<chatbots, student_sessions, nextId, gate, lastAttempts, lastReset, observeResets, evalVars, moreVars>>

\* ---- the goal evaluation: POST /api/ai/evaluate-goals ----

\* learning_goals(id, chatbot_id): "c1" has two goals, "c2" has none, and "g3"
\* is a goal of a chatbot "c3" that has no sessions
Goals == {"g1", "g2", "g3"}
learning_goals ==
    [g \in Goals |-> [id |-> g, chatbot_id |-> IF g = "g3" THEN "c3" ELSE "c1"]]

\* chatbots ( learning_goals ( id, .. ) ) of the session's chatbot
GoalsOf(c) == {learning_goals[g].id : g \in {x \in Goals : learning_goals[x].chatbot_id = c}}

\* what the LLM can answer per goal: EvaluationResult { goal_id, achieved, reason }
Verdicts == {[achieved |-> TRUE, reason |-> "met"], [achieved |-> FALSE, reason |-> "not met"]}
EvaluationResults ==
    {[goal_id |-> g, achieved |-> v.achieved, reason |-> v.reason] : g \in Goals, v \in Verdicts}
ResultArrays == UNION {[1..n -> EvaluationResults] : n \in 0..MaxResults}

\* the outcome of openai.chat.completions.create: the call throws, the content
\* is empty, the content is not JSON, the JSON is something else than the two
\* accepted shapes, a root array, or an object with an "evaluations" array
Replies ==
    [kind : {"throws", "empty", "invalid", "other"}, items : {<<>>}]
        \cup [kind : {"array", "evaluations"}, items : ResultArrays]

\* variant: an object of another shape is read as an empty list of evaluations
ParseEvaluationLenient(reply) ==
    IF reply.kind \in {"array", "evaluations"}
    THEN [ok |-> TRUE, results |-> reply.items]
    ELSE IF reply.kind = "other"
    THEN [ok |-> TRUE, results |-> <<>>]
    ELSE [ok |-> FALSE, results |-> <<>>]

\* steps 6-7: the content check, JSON.parse and the two accepted shapes
ParseEvaluation(reply) ==
    IF reply.kind \in {"array", "evaluations"}
    THEN [ok |-> TRUE, results |-> reply.items]
    ELSE [ok |-> FALSE, results |-> <<>>]

\* upsertData: one record per element of the LLM's array
UpsertData(results, studentId, chatbotId) ==
    [i \in 1..Len(results) |->
        [student_id |-> studentId, chatbot_id |-> chatbotId,
         goal_id |-> results[i].goal_id,
         evaluated_by_ai |-> results[i].achieved,
         evaluation_comment |-> results[i].reason]]

\* onConflict: 'student_id, chatbot_id, goal_id'
SameKey(a, b) ==
    /\ a.student_id = b.student_id
    /\ a.chatbot_id = b.chatbot_id
    /\ a.goal_id = b.goal_id

\* two records of one upsert statement with the same conflict key: the data
\* store rejects the statement
DuplicateKeys(data) ==
    \E i, j \in 1..Len(data) : i # j /\ SameKey(data[i], data[j])

\* the row a record of the upsert leaves: the two AI columns are written,
\* checked_by_student keeps the value of the row it replaces (null in a new row)
UpsertedRow(table, rec) ==
    [student_id |-> rec.student_id, chatbot_id |-> rec.chatbot_id, goal_id |-> rec.goal_id,
     evaluated_by_ai |-> Some(rec.evaluated_by_ai),
     evaluation_comment |-> Some(rec.evaluation_comment),
     checked_by_student |->
        IF \E old \in table : SameKey(old, rec)
        THEN (CHOOSE old \in table : SameKey(old, rec)).checked_by_student
        ELSE Null]

\* variant: the records are inserted without looking for a conflicting row
UpsertInsertOnly(table, data) ==
    table \cup {UpsertedRow({}, data[i]) : i \in 1..Len(data)}

\* .upsert(upsertData, { onConflict }): a conflicting row is updated in place
Upsert(table, data) ==
    {row \in table : \A i \in 1..Len(data) : ~SameKey(row, data[i])}
        \cup {UpsertedRow(table, data[i]) : i \in 1..Len(data)}

IdleEval ==
    [pc |-> "idle", user |-> Null, sessionId |-> 0, studentId |-> Null, chatbotId |-> "",
     llmCalls |-> 0, llm |-> "", evaluationResults |-> <<>>, status |-> 0, reason |-> "",
     storeErr |-> FALSE, overwritten |-> {}]

\* return NextResponse.json(..., { status })
EvalAnswer(e, st, why, err) ==
    [e EXCEPT !.pc = "done", !.status = st, !.reason = why, !.storeErr = err]

\* request bodies: no valid sessionId, or the id of a session (0: of none)
SessionIds == 0..MaxSessions
EvalBodies == {Null} \cup {Some(id) : id \in SessionIds}

\* variant: the ownership check is left out
EvalChecksNoOwner(e0, who, body, sessErr, noMessages) ==
    IF who = "none"
    THEN EvalAnswer(e0, 401, "Unauthorized", FALSE)
    ELSE LET e1 == [e0 EXCEPT !.user = Some(who)] IN
         IF IsNull(body)
         THEN EvalAnswer(e1, 400, "InvalidInput", FALSE)
         ELSE LET e2 == [e1 EXCEPT !.sessionId = Val(body)]
                  found == {row \in student_sessions : row.id = Val(body)} IN
              IF sessErr \/ found = {}
              THEN EvalAnswer(e2, 404, "SessionNotFound", sessErr)
              ELSE LET sessionData == CHOOSE row \in found : TRUE
                       e3 == [e2 EXCEPT !.studentId = Some(sessionData.student_id),
                                        !.chatbotId = sessionData.chatbot_id] IN
                   IF GoalsOf(sessionData.chatbot_id) = {}
                   THEN EvalAnswer(e3, 200, "NoGoals", FALSE)
                   ELSE IF noMessages
                   THEN EvalAnswer(e3, 400, "NoMessages", FALSE)
                   ELSE [e3 EXCEPT !.pc = "llm"]

\* steps 1-4: the requester, the body, the session with its chatbot, goals and
\* messages, the ownership check, and the two answers without an evaluation.
\* noMessages: the session's messages are written by the chat, which is not
\* part of this model; the select finds none or some.
EvalChecks(e0, who, body, sessErr, noMessages) ==
    IF who = "none"
    THEN EvalAnswer(e0, 401, "Unauthorized", FALSE)
    ELSE LET e1 == [e0 EXCEPT !.user = Some(who)] IN
         IF IsNull(body)
         THEN EvalAnswer(e1, 400, "InvalidInput", FALSE)
         ELSE LET e2 == [e1 EXCEPT !.sessionId = Val(body)]
                  found == {row \in student_sessions : row.id = Val(body)} IN
              IF sessErr \/ found = {}
              THEN EvalAnswer(e2, 404, "SessionNotFound", sessErr)
              ELSE LET sessionData == CHOOSE row \in found : TRUE
                       e3 == [e2 EXCEPT !.studentId = Some(sessionData.student_id),
                                        !.chatbotId = sessionData.chatbot_id] IN
                   IF chatbots[sessionData.chatbot_id].teacher_id # who
                   THEN EvalAnswer(e3, 403, "Forbidden", FALSE)
                   ELSE IF GoalsOf(sessionData.chatbot_id) = {}
                   THEN EvalAnswer(e3, 200, "NoGoals", FALSE)
                   ELSE IF noMessages
                   THEN EvalAnswer(e3, 400, "NoMessages", FALSE)
                   ELSE [e3 EXCEPT !.pc = "llm"]

EvalStart ==
    /\ evaluation.pc = "idle"
    /\ \E who \in {"none"} \cup Teachers, body \in EvalBodies,
          sessErr \in BOOLEAN, noMessages \in BOOLEAN :
         evaluation' = EvalChecks(IdleEval, who, body, sessErr, noMessages)
    /\ UNCHANGED <<gateVars, student_goal_responses, moreVars>>

\* steps 5-7: the one call of the LLM and the parsing of its answer
EvalLLM ==
    /\ evaluation.pc = "llm"
    /\ \E reply \in Replies :
         LET e == [evaluation EXCEPT !.llmCalls = @ + 1, !.llm = reply.kind]
             parsed == ParseEvaluation(reply) IN
         evaluation' =
            IF parsed.ok
            THEN [e EXCEPT !.pc = "upsert", !.evaluationResults = parsed.results]
            ELSE EvalAnswer(e, 500, "EvaluationFailed", FALSE)
    /\ UNCHANGED <<gateVars, student_goal_responses, moreVars>>

\* steps 8-9: the upsert of the results and the answer
EvalUpsert ==
    /\ evaluation.pc = "upsert"
    /\ \E err \in BOOLEAN :
         LET upsertData == UpsertData(evaluation.evaluationResults,
                                      Val(evaluation.studentId), evaluation.chatbotId) IN
         IF err \/ DuplicateKeys(upsertData)
         THEN /\ evaluation' = EvalAnswer(evaluation, 500, "SaveFailed", TRUE)
              /\ UNCHANGED student_goal_responses
         ELSE /\ student_goal_responses' = Upsert(student_goal_responses, upsertData)
              /\ evaluation' =
                    [EvalAnswer(evaluation, 200, "Evaluated", FALSE) EXCEPT
                        !.overwritten =
                            {row \in student_goal_responses :
                                \E i \in 1..Len(upsertData) : SameKey(row, upsertData[i])}]
    /\ UNCHANGED <<gateVars, moreVars>>

\* the response is returned
EvalRespond ==
    /\ evaluation.pc = "done"
    /\ evaluation' = IdleEval
    /\ UNCHANGED <<gateVars, student_goal_responses, moreVars>>

\* ---- the goals listing: GET /api/chatbots/:chatbotId/goals ----

IdleGoals ==
    [pc |-> "idle", user |-> Null, chatbotId |-> "", found |-> FALSE,
     studentClassName |-> Null, status |-> 0, reason |-> "", storeErr |-> FALSE,
     learningGoals |-> {}]

\* chatbot.allowed_classes?.includes(studentClassName): undefined for null
GoalsAllowed(allowed, className) ==
    /\ ~allowed.null
    /\ ~IsNull(className)
    /\ Val(className) \in allowed.items

GoalsAnswer(q, st, why, err) ==
    [q EXCEPT !.pc = "done", !.status = st, !.reason = why, !.storeErr = err]

\* steps 1-5: the session, the student's profile (the class of the student is
\* the one the gate reads), the chatbot, the class check and the goals
GoalsChecks(q0, token, profErr, botErr, goalsErr) ==
    IF token \in {"none", "invalid"}
    THEN GoalsAnswer(q0, 401, "Unauthenticated", FALSE)
    ELSE LET q1 == [q0 EXCEPT !.user = Some(token)] IN
         IF profErr \/ token \notin DOMAIN profiles
         THEN GoalsAnswer(q1, 403, "ProfileNotFound", profErr)
         ELSE LET q2 == [q1 EXCEPT !.studentClassName = profiles[token].class_id]
                  cid == q0.chatbotId IN
              IF botErr \/ cid \notin DOMAIN chatbots
              THEN GoalsAnswer(q2, 404, "ChatbotNotFound", botErr)
              ELSE LET q3 == [q2 EXCEPT !.found = TRUE] IN
                   IF ~GoalsAllowed(chatbots[cid].allowed_classes, q3.studentClassName)
                   THEN GoalsAnswer(q3, 403, "AccessDenied", FALSE)
                   ELSE IF goalsErr
                   THEN GoalsAnswer(q3, 500, "GoalsFailed", TRUE)
                   ELSE GoalsAnswer([q3 EXCEPT !.learningGoals = GoalsOf(cid)], 200, "Listed", FALSE)

GoalsGet ==
    /\ goals.pc = "idle"
    /\ \E token \in {"none", "invalid"} \cup AuthUsers, cid \in Chatbots \cup {"cx"},
          profErr \in BOOLEAN, botErr \in BOOLEAN, goalsErr \in BOOLEAN :
         goals' = GoalsChecks([IdleGoals EXCEPT !.chatbotId = cid], token, profErr, botErr, goalsErr)
    /\ UNCHANGED <<gateVars, evalVars, exceptGoals>>

\* the response is returned
GoalsRespond ==
    /\ goals.pc = "done"
    /\ goals' = IdleGoals
    /\ UNCHANGED <<gateVars, evalVars, exceptGoals>>

\* ---- the student's self-check: POST /api/student-goal-responses ----

IdleCheck ==
    [pc |-> "idle", studentId |-> Null, chatbotId |-> "", responses |-> <<>>, status |-> 0]

\* goalResponseSchema { goalId, checked } and the bodies of the request: not
\* valid, or a chatbot id with an array of responses
GoalResponses == [goalId : {"g1"}, checked : BOOLEAN]
ResponseArrays == {<<>>} \cup {<<r>> : r \in GoalResponses} \cup {<<r, r>> : r \in GoalResponses}
CheckBodies == {Null} \cup {Some([chatbotId |-> "c1", responses |-> a]) : a \in ResponseArrays}

\* the students that send their self-check; "u0" has no profile row
CheckUsers == {"s1", "u0"}

\* recordsToUpsert: one record per response
RecordsToUpsert(responses, studentId, chatbotId) ==
    [i \in 1..Len(responses) |->
        [student_id |-> studentId, chatbot_id |-> chatbotId,
         goal_id |-> responses[i].goalId,
         checked_by_student |-> responses[i].checked]]

\* variant: the row is written whole, the columns not given become null
CheckedRowWhole(table, rec) ==
    [student_id |-> rec.student_id, chatbot_id |-> rec.chatbot_id, goal_id |-> rec.goal_id,
     evaluated_by_ai |-> Null,
     evaluation_comment |-> Null,
     checked_by_student |-> Some(rec.checked_by_student)]

\* the row a record of the upsert leaves: checked_by_student is written, the two
\* AI columns keep the values of the row it replaces (null in a new row)
CheckedRow(table, rec) ==
    LET old == {row \in table : SameKey(row, rec)} IN
    [student_id |-> rec.student_id, chatbot_id |-> rec.chatbot_id, goal_id |-> rec.goal_id,
     evaluated_by_ai |-> IF old # {} THEN (CHOOSE row \in old : TRUE).evaluated_by_ai ELSE Null,
     evaluation_comment |-> IF old # {} THEN (CHOOSE row \in old : TRUE).evaluation_comment ELSE Null,
     checked_by_student |-> Some(rec.checked_by_student)]

\* .upsert(recordsToUpsert, { onConflict: 'student_id, chatbot_id, goal_id' })
UpsertChecked(table, data) ==
    {row \in table : \A i \in 1..Len(data) : ~SameKey(row, data[i])}
        \cup {CheckedRow(table, data[i]) : i \in 1..Len(data)}

\* the answer of the request; a request that stored nothing leaves no record
CheckAnswer(q, st) == [q EXCEPT !.pc = "done", !.status = st]

\* the whole request: the session, the student's profile, the body, the upsert
SelfCheckPost ==
    /\ selfcheck.pc = "idle"
    /\ \E token \in {"none"} \cup CheckUsers, profErr \in BOOLEAN, body \in CheckBodies,
          err \in BOOLEAN :
         IF token = "none"
         THEN /\ selfcheck' = CheckAnswer(IdleCheck, 401)
              /\ UNCHANGED student_goal_responses
         ELSE IF profErr \/ token \notin DOMAIN profiles
         THEN /\ selfcheck' = CheckAnswer(IdleCheck, 403)
              /\ UNCHANGED student_goal_responses
         ELSE IF IsNull(body)
         THEN /\ selfcheck' = CheckAnswer(IdleCheck, 400)
              /\ UNCHANGED student_goal_responses
         ELSE LET q == [IdleCheck EXCEPT !.studentId = Some(profiles[token].id),
                                         !.chatbotId = Val(body).chatbotId,
                                         !.responses = Val(body).responses]
                  data == RecordsToUpsert(q.responses, Val(q.studentId), q.chatbotId) IN
              IF err \/ DuplicateKeys(data)
              THEN /\ selfcheck' = CheckAnswer(IdleCheck, 500)
                   /\ UNCHANGED student_goal_responses
              ELSE /\ selfcheck' = CheckAnswer(q, 200)
                   /\ student_goal_responses' = UpsertChecked(student_goal_responses, data)
    /\ UNCHANGED <<gateVars, evaluation, exceptCheck>>

\* the response is returned
SelfCheckRespond ==
    /\ selfcheck.pc = "done"
    /\ selfcheck' = IdleCheck
    /\ UNCHANGED <<gateVars, evalVars, exceptCheck>>

\* ---- student accounts: createSingleStudent and DELETE /api/teacher/students/[id] ----

\* classes(id, teacher_id)
ClassTeacher == [c \in Classes |-> IF c = "A" THEN "t1" ELSE "t2"]

\* student id numbers; the auth user of a number has the email <number>@qbot.student
\* and is named by the number
StudentNumbers == {"n1", "n2"}

\* who calls the delete handler: a teacher, or the user "u0" who is no teacher
Actors == Teachers \cup {"u0"}

\* the profile row createSingleStudent inserts
StudentProfile(userId, class) ==
    [id |-> userId, user_id |-> userId, role |-> "student", class_id |-> class]

\* the accounts before any request: one student without a class
InitAuthUsers == {"n2"}
InitProfileRows == {StudentProfile("n2", Null)}

IdleCreation ==
    [pc |-> "idle", teacher |-> "", number |-> "", class |-> "", userId |-> Null, status |-> 0]

CreationAnswer(q, st) == [q EXCEPT !.pc = "done", !.status = st]

\* createSingleStudent up to auth.admin.createUser
CreateStart ==
    /\ creation.pc = "idle"
    /\ \E teacher \in Teachers, number \in StudentNumbers \cup {""}, class \in Classes,
          classErr \in BOOLEAN, authErr \in {"none", "conflict", "other"} :
         LET q == [IdleCreation EXCEPT !.teacher = teacher, !.number = number, !.class = class] IN
         IF number = ""
         THEN creation' = CreationAnswer(q, 400) /\ UNCHANGED auth_users
         ELSE IF classErr
         THEN creation' = CreationAnswer(q, 500) /\ UNCHANGED auth_users
         ELSE IF ClassTeacher[class] # teacher
         THEN creation' = CreationAnswer(q, 403) /\ UNCHANGED auth_users
         ELSE IF number \in auth_users
         THEN creation' = [q EXCEPT !.pc = "existing"] /\ UNCHANGED auth_users
         ELSE IF authErr = "conflict"
         THEN creation' = CreationAnswer(q, 409) /\ UNCHANGED auth_users
         ELSE IF authErr = "other"
         THEN creation' = CreationAnswer(q, 500) /\ UNCHANGED auth_users
         ELSE /\ creation' = [q EXCEPT !.pc = "profile", !.userId = Some(number)]
              /\ auth_users' = auth_users \cup {number}
    /\ UNCHANGED <<profile_rows, deletion>>
    /\ UNCHANGED <<gateVars, evalVars, exceptAccounts>>

\* the email exists: listUsers, then the profile of the user found is updated
CreateExisting ==
    /\ creation.pc = "existing"
    /\ \E findErr \in BOOLEAN, updateErr \in BOOLEAN :
         LET rows == {row \in profile_rows : row.user_id = creation.number} IN
         IF findErr \/ creation.number \notin auth_users
         THEN creation' = CreationAnswer(creation, 409) /\ UNCHANGED profile_rows
         ELSE IF updateErr \/ Cardinality(rows) # 1
         THEN creation' = CreationAnswer(creation, 500) /\ UNCHANGED profile_rows
         ELSE /\ creation' = CreationAnswer([creation EXCEPT !.userId = Some(creation.number)], 200)
              /\ profile_rows' = (profile_rows \ rows)
                     \cup {[row EXCEPT !.class_id = Some(creation.class)] : row \in rows}
    /\ UNCHANGED <<auth_users, deletion>>
    /\ UNCHANGED <<gateVars, evalVars, exceptAccounts>>

\* profiles.insert({ user_id: userId, ... })
CreateProfile ==
    /\ creation.pc = "profile"
    /\ \E profileErr \in BOOLEAN :
         IF profileErr
         THEN creation' = [creation EXCEPT !.pc = "cleanup"] /\ UNCHANGED profile_rows
         ELSE /\ creation' = CreationAnswer(creation, 201)
              /\ profile_rows' = profile_rows
                     \cup {StudentProfile(Val(creation.userId), Some(creation.class))}
    /\ UNCHANGED <<auth_users, deletion>>
    /\ UNCHANGED <<gateVars, evalVars, exceptAccounts>>

\* if (profileError): await deleteUser(userId), its result is not looked at; 500
CreateCleanup ==
    /\ creation.pc = "cleanup"
    /\ \E deleteErr \in BOOLEAN :
         auth_users' = IF deleteErr THEN auth_users ELSE auth_users \ {Val(creation.userId)}
    /\ creation' = CreationAnswer(creation, 500)
    /\ UNCHANGED <<profile_rows, deletion>>
    /\ UNCHANGED <<gateVars, evalVars, exceptAccounts>>

\* createSingleStudent returns
CreateRespond ==
    /\ creation.pc = "done"
    /\ creation' = IdleCreation
    /\ UNCHANGED <<auth_users, profile_rows, deletion>>
    /\ UNCHANGED <<gateVars, evalVars, exceptAccounts>>

IdleDeletion ==
    [pc |-> "idle", actor |-> "", profileId |-> "", userId |-> Null, status |-> 0]

DeletionAnswer(q, st) == [q EXCEPT !.pc = "done", !.status = st]

\* DELETE: the user, the teacher role, the student's profile, the class ownership
DeleteStart ==
    /\ deletion.pc = "idle"
    /\ \E token \in {"none"} \cup Actors, profileId \in StudentNumbers,
          roleErr \in BOOLEAN, fetchErr \in BOOLEAN, classErr \in BOOLEAN :
         LET q == [IdleDeletion EXCEPT !.actor = token, !.profileId = profileId]
             rows == {row \in profile_rows : row.id = profileId /\ row.role = "student"} IN
         IF token = "none"
         THEN deletion' = DeletionAnswer(q, 401)
         ELSE IF roleErr \/ token \notin Teachers
         THEN deletion' = DeletionAnswer(q, 403)
         ELSE IF fetchErr \/ Cardinality(rows) # 1
         THEN deletion' = DeletionAnswer(q, 404)
         ELSE LET student == CHOOSE row \in rows : TRUE IN
              IF IsNull(student.class_id)
              THEN deletion' = DeletionAnswer(q, 403)
              ELSE IF classErr \/ ClassTeacher[Val(student.class_id)] # token
              THEN deletion' = DeletionAnswer(q, 403)
              ELSE deletion' = [q EXCEPT !.pc = "profile", !.userId = Some(student.user_id)]
    /\ UNCHANGED <<auth_users, profile_rows, creation>>
    /\ UNCHANGED <<gateVars, evalVars, exceptAccounts>>

\* supabaseAdmin.from('profiles').delete().eq('id', profileId)
DeleteProfile ==
    /\ deletion.pc = "profile"
    /\ \E err \in {"none", "PGRST116", "other"} :
         IF err = "PGRST116"
         THEN deletion' = DeletionAnswer(deletion, 404) /\ UNCHANGED profile_rows
         ELSE IF err = "other"
         THEN deletion' = DeletionAnswer(deletion, 500) /\ UNCHANGED profile_rows
         ELSE /\ deletion' = [deletion EXCEPT !.pc = "auth"]
              /\ profile_rows' = {row \in profile_rows : row.id # deletion.profileId}
    /\ UNCHANGED <<auth_users, creation>>
    /\ UNCHANGED <<gateVars, evalVars, exceptAccounts>>

\* auth.admin.deleteUser(studentToDelete.user_id): an error is logged only; 204
DeleteAuth ==
    /\ deletion.pc = "auth"
    /\ \E authDeleteErr \in BOOLEAN :
         auth_users' = IF authDeleteErr THEN auth_users ELSE auth_users \ {Val(deletion.userId)}
    /\ deletion' = DeletionAnswer(deletion, 204)
    /\ UNCHANGED <<profile_rows, creation>>
    /\ UNCHANGED <<gateVars, evalVars, exceptAccounts>>

\* the response is returned
DeleteRespond ==
    /\ deletion.pc = "done"
    /\ deletion' = IdleDeletion
    /\ UNCHANGED <<auth_users, profile_rows, creation>>
    /\ UNCHANGED <<gateVars, evalVars, exceptAccounts>>

\* ---- the students table: POST /api/teacher/students/bulk and POST /api/student/login ----

\* bcrypt.hash and bcrypt.compare
Hash(password) == <<"bcrypt", password>>
Compare(password, hashed) == hashed = Hash(password)

Passwords == {"p1", "p2"}
LoginNumbers == {"n1", "n2", "n3"}

\* the password of the rows of a CSV file
CsvPassword == "p2"

\* students(id, teacher_id, student_number, password) before any import
InitStudentRows ==
    {[id |-> 1, teacher_id |-> "t1", student_number |-> "n1", password |-> Hash("p1")],
     [id |-> 2, teacher_id |-> "t2", student_number |-> "n2", password |-> Hash("p2")]}

\* the imports that can run at once, and the CSV files: the rows' student
\* numbers, "" for a row without one
Importers == {"i1", "i2"}
CsvRows == {"", "n1", "n2"}
CsvFiles == {<<a>> : a \in CsvRows} \cup {<<a, b>> : a \in CsvRows, b \in CsvRows}

IdleImport ==
    [pc |-> "idle", teacher |-> "", valid |-> <<>>, failures |-> {}, successCount |-> 0,
     status |-> 0]

\* the rows without a name or number fail; the others are studentsToInsert
MissingFailures(file) ==
    {[row |-> i + 1, reason |-> "missing"] : i \in {j \in 1..Len(file) : file[j] = ""}}
StudentsToInsert(file) == SelectSeq(file, LAMBDA n : n # "")

\* the forEach over studentsToInsert with the set existingNumbers, which grows
\* with every number accepted
RECURSIVE ValidStudentsForInsert(_, _)
ValidStudentsForInsert(list, existingNumbers) ==
    IF list = <<>> THEN <<>>
    ELSE IF Head(list) \in existingNumbers
         THEN ValidStudentsForInsert(Tail(list), existingNumbers)
         ELSE <<Head(list)>> \o ValidStudentsForInsert(Tail(list), existingNumbers \cup {Head(list)})

\* parseResult.data.findIndex(...) + 2: the row of the first line with the number
RowNumber(file, number) ==
    (CHOOSE i \in 1..Len(file) : file[i] = number /\ \A j \in 1..(i - 1) : file[j] # number) + 1

\* the rows answered 'already exists': those of studentsToInsert not accepted
RECURSIVE ExistsFailures(_, _, _)
ExistsFailures(list, existingNumbers, file) ==
    IF list = <<>> THEN {}
    ELSE IF Head(list) \in existingNumbers
         THEN {[row |-> RowNumber(file, Head(list)), reason |-> "exists"]}
                  \cup ExistsFailures(Tail(list), existingNumbers, file)
         ELSE ExistsFailures(Tail(list), existingNumbers \cup {Head(list)}, file)

\* students.select('student_number').eq('teacher_id', teacherId)
ExistingNumbers(teacher) ==
    {row.student_number : row \in {r \in student_rows : r.teacher_id = teacher}}

\* status: failures.length > 0 && successCount === 0 ? 400 : 200
ImportAnswer(q) ==
    [q EXCEPT !.pc = "done",
              !.status = IF q.failures # {} /\ q.successCount = 0 THEN 400 ELSE 200]

\* the rows still to be inserted by the imports in flight
PendingRows == Len(imports["i1"].valid) + Len(imports["i2"].valid)

\* POST up to the select of the existing numbers and the duplicate check
ImportFetch(i) ==
    /\ imports[i].pc = "idle"
    /\ \E token \in {"none", "t1"}, file \in {Null} \cup {Some(f) : f \in CsvFiles},
          fetchErr \in BOOLEAN :
         IF token = "none"
         THEN imports' = [imports EXCEPT ![i] = [IdleImport EXCEPT !.pc = "done", !.status = 401]]
         ELSE IF IsNull(file)
         THEN imports' = [imports EXCEPT ![i] = [IdleImport EXCEPT !.pc = "done", !.status = 400]]
         ELSE LET list == StudentsToInsert(Val(file))
                  q == [IdleImport EXCEPT !.teacher = token, !.failures = MissingFailures(Val(file))] IN
              IF list = <<>>
              THEN imports' = [imports EXCEPT ![i] = ImportAnswer(q)]
              ELSE IF fetchErr
              THEN imports' = [imports EXCEPT ![i] = [IdleImport EXCEPT !.pc = "done", !.status = 500]]
              ELSE LET valid == ValidStudentsForInsert(list, ExistingNumbers(token))
                       q2 == [q EXCEPT !.valid = valid,
                                       !.failures = q.failures \cup ExistsFailures(list, ExistingNumbers(token), Val(file))] IN
                   /\ Cardinality(student_rows) + PendingRows + Len(valid) <= MaxStudentRows
                   /\ imports' = [imports EXCEPT ![i] =
                          IF valid = <<>> THEN ImportAnswer(q2) ELSE [q2 EXCEPT !.pc = "insert"]]
    /\ UNCHANGED <<student_rows, login>>
    /\ UNCHANGED <<gateVars, evalVars, exceptStudents>>

\* students.insert(validStudentsForInsert): one statement, all rows or none
ImportInsert(i) ==
    /\ imports[i].pc = "insert"
    /\ \E insertErr \in BOOLEAN :
         LET q == imports[i]
             n == Cardinality(student_rows) IN
         IF insertErr
         THEN /\ imports' = [imports EXCEPT ![i] =
                     ImportAnswer([q EXCEPT !.valid = <<>>,
                                            !.failures = q.failures \cup {[row |-> 0, reason |-> "db"]}])]
              /\ UNCHANGED student_rows
         ELSE /\ imports' = [imports EXCEPT ![i] =
                     ImportAnswer([q EXCEPT !.valid = <<>>, !.successCount = Len(q.valid)])]
              /\ student_rows' = student_rows \cup
                     {[id |-> n + k, teacher_id |-> q.teacher, student_number |-> q.valid[k],
                       password |-> Hash(CsvPassword)] : k \in 1..Len(q.valid)}
    /\ UNCHANGED login
    /\ UNCHANGED <<gateVars, evalVars, exceptStudents>>

\* the response is returned
ImportRespond(i) ==
    /\ imports[i].pc = "done"
    /\ imports' = [imports EXCEPT ![i] = IdleImport]
    /\ UNCHANGED <<student_rows, login>>
    /\ UNCHANGED <<gateVars, evalVars, exceptStudents>>

IdleLogin ==
    [pc |-> "idle", studentNumber |-> "", password |-> "", fetchErr |-> FALSE,
     compared |-> FALSE, response |-> [status |-> 0, error |-> ""]]

\* the answer when no student was fetched
NotFoundResponse == [status |-> 401, error |-> "wrong number or password"]

\* variant: the answer for a wrong password says so
WrongPasswordNamed == [status |-> 401, error |-> "wrong password"]

\* the answer when the password does not compare
WrongPasswordResponse == [status |-> 401, error |-> "wrong number or password"]

\* POST /api/student/login
Login ==
    /\ login.pc = "idle"
    /\ \E body \in {Null} \cup {Some([studentNumber |-> n, password |-> p]) :
                                    n \in LoginNumbers, p \in Passwords},
          fetchErr \in BOOLEAN :
         IF IsNull(body)
         THEN login' = [IdleLogin EXCEPT !.pc = "done",
                                         !.response = [status |-> 400, error |-> "bad request"]]
         ELSE LET q == [IdleLogin EXCEPT !.pc = "done",
                                         !.studentNumber = Val(body).studentNumber,
                                         !.password = Val(body).password,
                                         !.fetchErr = fetchErr]
                  rows == {r \in student_rows : r.student_number = q.studentNumber} IN
              IF fetchErr \/ Cardinality(rows) # 1
              THEN login' = [q EXCEPT !.response = NotFoundResponse]
              ELSE LET student == CHOOSE r \in rows : TRUE IN
                   IF ~Compare(q.password, student.password)
                   THEN login' = [q EXCEPT !.compared = TRUE, !.response = WrongPasswordResponse]
                   ELSE login' = [q EXCEPT !.compared = TRUE,
                                           !.response = [status |-> 200, error |-> ""]]
    /\ UNCHANGED <<student_rows, imports>>
    /\ UNCHANGED <<gateVars, evalVars, exceptStudents>>

\* the response is returned
LoginRespond ==
    /\ login.pc = "done"
    /\ login' = IdleLogin
    /\ UNCHANGED <<student_rows, imports>>
    /\ UNCHANGED <<gateVars, evalVars, exceptStudents>>

\* ---- reference files: POST /api/teacher/chatbots/[chatbotId]/references ----

\* verifyTeacherRole(supabase, user): the user has the teacher role
VerifyTeacherRole(user) == user \in Teachers

\* the chatbot ids of the requests; "c9" is no chatbot
UploadChatbots == Chatbots \cup {"c9"}

\* the requests keep nothing but the count of the file names made so far
\* (crypto.randomUUID() gives each upload a new name)
IdleUpload(made) ==
    [pc |-> "idle", user |-> "", chatbotId |-> "", path |-> Null, status |-> 0, made |-> made]

\* variant: the chatbot's owner is not compared with the user
UploadChecksNoOwner(token, chatbotId, chatbotErr, hasFile) ==
    IF token = "none" THEN 401
    ELSE IF ~VerifyTeacherRole(token) THEN 403
    ELSE IF chatbotErr \/ chatbotId \notin Chatbots THEN 404
    ELSE IF ~hasFile THEN 400
    ELSE 0

\* the checks before the upload, in the handler's order; 0 when all pass
UploadChecks(token, chatbotId, chatbotErr, hasFile) ==
    IF token = "none" THEN 401
    ELSE IF ~VerifyTeacherRole(token) THEN 403
    ELSE IF chatbotErr \/ chatbotId \notin Chatbots THEN 404
    ELSE IF chatbots[chatbotId].teacher_id # token THEN 403
    ELSE IF ~hasFile THEN 400
    ELSE 0

\* POST up to the file of the form data
UploadStart ==
    /\ upload.pc = "idle"
    /\ upload.made < MaxUploads
    /\ \E token \in {"none"} \cup Actors, chatbotId \in UploadChatbots,
          chatbotErr \in BOOLEAN, hasFile \in BOOLEAN :
         LET q == [upload EXCEPT !.user = token, !.chatbotId = chatbotId]
             st == UploadChecks(token, chatbotId, chatbotErr, hasFile) IN
         upload' = IF st # 0 THEN [q EXCEPT !.pc = "done", !.status = st]
                   ELSE [q EXCEPT !.pc = "storage"]
    /\ UNCHANGED <<slugs, slugReq, reference_files, storage>>
    /\ UNCHANGED <<gateVars, evalVars, exceptBots>>

\* supabase.storage.from('reference-files').upload(filePath, file)
UploadStorage ==
    /\ upload.pc = "storage"
    /\ \E uploadErr \in BOOLEAN :
         LET filePath == <<upload.user, upload.chatbotId, upload.made + 1>> IN
         IF uploadErr
         THEN /\ upload' = [upload EXCEPT !.pc = "done", !.status = 500]
              /\ UNCHANGED storage
         ELSE /\ upload' = [upload EXCEPT !.pc = "insert", !.path = Some(filePath),
                                          !.made = upload.made + 1]
              /\ storage' = storage \cup {filePath}
    /\ UNCHANGED <<slugs, slugReq, reference_files>>
    /\ UNCHANGED <<gateVars, evalVars, exceptBots>>

\* reference_files.insert({ chatbot_id, uploader_id, storage_path, ... })
UploadInsert ==
    /\ upload.pc = "insert"
    /\ \E dbErr \in BOOLEAN :
         IF dbErr
         THEN /\ upload' = [upload EXCEPT !.pc = "cleanup"]
              /\ UNCHANGED reference_files
         ELSE /\ upload' = [upload EXCEPT !.pc = "done", !.status = 201]
              /\ reference_files' = reference_files \cup
                     {[chatbot_id |-> upload.chatbotId, uploader_id |-> upload.user,
                       storage_path |-> Val(upload.path)]}
    /\ UNCHANGED <<slugs, slugReq, storage>>
    /\ UNCHANGED <<gateVars, evalVars, exceptBots>>

\* if (dbError): storage.remove([uploadData.path]), its result is not looked at; 500
UploadCleanup ==
    /\ upload.pc = "cleanup"
    /\ \E removeErr \in BOOLEAN :
         storage' = IF removeErr THEN storage ELSE storage \ {Val(upload.path)}
    /\ upload' = [upload EXCEPT !.pc = "done", !.status = 500]
    /\ UNCHANGED <<slugs, slugReq, reference_files>>
    /\ UNCHANGED <<gateVars, evalVars, exceptBots>>

\* the response is returned
UploadRespond ==
    /\ upload.pc = "done"
    /\ upload' = IdleUpload(upload.made)
    /\ UNCHANGED <<slugs, slugReq, reference_files, storage>>
    /\ UNCHANGED <<gateVars, evalVars, exceptBots>>

\* ---- custom links: POST /api/teacher/chatbots and PUT /api/teacher/chatbots/[id] ----

\* the ids a chatbot row can have, the requests in flight, and the values of
\* custom_link_slug in a body: not given, null, '' or a slug
SlugBots == {"b1", "b2", "b3"}
SlugRequests == {"q1", "q2"}
SlugValues == {"x", "y"}
SlugInputs == {"undefined", "null", ""} \cup SlugValues

\* chatbots(id, teacher_id, custom_link_slug) before any request
InitSlugs == {[id |-> "b1", teacher_id |-> "t1", custom_link_slug |-> Null]}

\* '' and null are stored as null
CustomLinkSlug(input) == IF input \in SlugValues THEN Some(input) ELSE Null

IdleSlug ==
    [pc |-> "idle", kind |-> "", user |-> "", id |-> "", given |-> FALSE, slug |-> Null,
     stage |-> "check", status |-> 0]

\* the answer of a request: its kind, its slug, the stage it got to and the status
SlugAnswer(q, st) ==
    [IdleSlug EXCEPT !.pc = "done", !.kind = q.kind, !.slug = q.slug, !.stage = q.stage,
                     !.status = st]

\* the rows that hold the slug, but for the row of the given id
SlugHolders(slug, id) ==
    {row \in slugs : row.custom_link_slug = Some(slug) /\ row.id # id}

\* variant: the table has no unique constraint on custom_link_slug
NoUniqueViolation(slug, id) == FALSE

\* the unique constraint chatbots_custom_link_slug_key: writing the slug into
\* the row of the id is refused (23505) when another row holds it
UniqueViolation(slug, id) == ~IsNull(slug) /\ SlugHolders(Val(slug), id) # {}

\* the id of the next row
NewId == CHOOSE b \in SlugBots : b \notin {row.id : row \in slugs}

\* the inserts still to come
PendingInserts == Cardinality({r \in SlugRequests : slugReq[r].pc = "insert"})

\* POST up to the lookup of the slug
SlugCreateStart(r) ==
    /\ slugReq[r].pc = "idle"
    /\ Cardinality(slugs) + PendingInserts < Cardinality(SlugBots)
    /\ \E token \in {"none"} \cup Actors, input \in SlugInputs \cup {"Bad Slug"},
          slugCheckErr \in BOOLEAN :
         LET q == [IdleSlug EXCEPT !.kind = "create", !.user = token, !.given = TRUE,
                                   !.slug = CustomLinkSlug(input)] IN
         slugReq' = [slugReq EXCEPT ![r] =
             IF token = "none" THEN SlugAnswer(q, 401)
             ELSE IF ~VerifyTeacherRole(token) THEN SlugAnswer(q, 403)
             ELSE IF input = "Bad Slug" THEN SlugAnswer(q, 400)
             ELSE IF IsNull(q.slug) THEN [q EXCEPT !.pc = "insert", !.stage = "write"]
             ELSE IF slugCheckErr \/ Cardinality(SlugHolders(Val(q.slug), "")) > 1
                  THEN SlugAnswer(q, 500)
             ELSE IF SlugHolders(Val(q.slug), "") # {} THEN SlugAnswer(q, 409)
             ELSE [q EXCEPT !.pc = "insert", !.stage = "write"]]
    /\ UNCHANGED <<slugs, reference_files, storage, upload>>
    /\ UNCHANGED <<gateVars, evalVars, exceptBots>>

\* chatbots.insert(insertPayload): 23505 is answered 409
SlugInsert(r) ==
    /\ slugReq[r].pc = "insert"
    /\ \E insertErr \in BOOLEAN :
         LET q == slugReq[r] IN
         IF UniqueViolation(q.slug, "")
         THEN /\ slugReq' = [slugReq EXCEPT ![r] = SlugAnswer(q, 409)]
              /\ UNCHANGED slugs
         ELSE IF insertErr
         THEN /\ slugReq' = [slugReq EXCEPT ![r] = SlugAnswer(q, 500)]
              /\ UNCHANGED slugs
         ELSE /\ slugReq' = [slugReq EXCEPT ![r] = SlugAnswer(q, 201)]
              /\ slugs' = slugs \cup
                     {[id |-> NewId, teacher_id |-> q.user, custom_link_slug |-> q.slug]}
    /\ UNCHANGED <<reference_files, storage, upload>>
    /\ UNCHANGED <<gateVars, evalVars, exceptBots>>

\* PUT up to the ownership check
SlugUpdateStart(r) ==
    /\ slugReq[r].pc = "idle"
    /\ \E token \in {"none"} \cup Actors, id \in SlugBots, input \in SlugInputs \cup {"Bad Slug"},
          others \in BOOLEAN, storeErr \in {"none", "slugCheck", "fetch"} :
         LET q == [IdleSlug EXCEPT !.kind = "update", !.user = token, !.id = id,
                                   !.given = input # "undefined",
                                   !.slug = CustomLinkSlug(input)]
             rows == {row \in slugs : row.id = id} IN
         slugReq' = [slugReq EXCEPT ![r] =
             IF token = "none" THEN SlugAnswer(q, 401)
             ELSE IF ~VerifyTeacherRole(token) THEN SlugAnswer(q, 403)
             ELSE IF input = "Bad Slug" THEN SlugAnswer(q, 400)
             ELSE IF ~IsNull(q.slug) /\ (storeErr = "slugCheck" \/ Cardinality(SlugHolders(Val(q.slug), id)) > 1)
                  THEN SlugAnswer(q, 500)
             ELSE IF ~IsNull(q.slug) /\ SlugHolders(Val(q.slug), id) # {} THEN SlugAnswer(q, 409)
             ELSE IF ~q.given /\ ~others THEN SlugAnswer(q, 400)
             ELSE IF storeErr = "fetch" THEN SlugAnswer(q, 500)
             ELSE IF rows = {} THEN SlugAnswer(q, 404)
             ELSE IF (CHOOSE row \in rows : TRUE).teacher_id # token THEN SlugAnswer(q, 403)
             ELSE [q EXCEPT !.pc = "update", !.stage = "write"]]
    /\ UNCHANGED <<slugs, reference_files, storage, upload>>
    /\ UNCHANGED <<gateVars, evalVars, exceptBots>>

\* chatbots.update(updateChatbotData).eq('id', chatbotId): 23505 is answered 409
SlugUpdate(r) ==
    /\ slugReq[r].pc = "update"
    /\ \E updateErr \in BOOLEAN :
         LET q == slugReq[r] IN
         IF q.given /\ UniqueViolation(q.slug, q.id)
         THEN /\ slugReq' = [slugReq EXCEPT ![r] = SlugAnswer(q, 409)]
              /\ UNCHANGED slugs
         ELSE IF updateErr
         THEN /\ slugReq' = [slugReq EXCEPT ![r] = SlugAnswer(q, 500)]
              /\ UNCHANGED slugs
         ELSE /\ slugReq' = [slugReq EXCEPT ![r] = SlugAnswer(q, 200)]
              /\ slugs' = {IF row.id = q.id /\ q.given
                           THEN [row EXCEPT !.custom_link_slug = q.slug] ELSE row : row \in slugs}
    /\ UNCHANGED <<reference_files, storage, upload>>
    /\ UNCHANGED <<gateVars, evalVars, exceptBots>>

\* the response is returned
SlugRespond(r) ==
    /\ slugReq[r].pc = "done"
    /\ slugReq' = [slugReq EXCEPT ![r] = IdleSlug]
    /\ UNCHANGED <<slugs, reference_files, storage, upload>>
    /\ UNCHANGED <<gateVars, evalVars, exceptBots>>

\* ---- the system ----

\* the requests of the other handlers: none has started
InitMore ==
    /\ goals = IdleGoals
    /\ selfcheck = IdleCheck
    /\ auth_users = InitAuthUsers
    /\ profile_rows = InitProfileRows
    /\ creation = IdleCreation
    /\ deletion = IdleDeletion
    /\ student_rows = InitStudentRows
    /\ imports = [i \in Importers |-> IdleImport]
    /\ login = IdleLogin
    /\ slugs = InitSlugs
    /\ slugReq = [r \in SlugRequests |-> IdleSlug]
    /\ reference_files = {}
    /\ storage = {}
    /\ upload = IdleUpload(0)

\* the chatbots table at the start of a run: "c1" has any configuration the
\* schemas admit, "c2" is either unrestricted or limited to one use by class A
ChatbotConfigs ==
    [max_attempts : MaxAttemptsValues, allowed_classes : AllowedClassesValues]
SecondChatbotConfigs ==
    {[max_attempts |-> Null, allowed_classes |-> NullArray],
     [max_attempts |-> Some(1), allowed_classes |-> Array({"A"})]}
ChatbotRows ==
    {[c \in Chatbots |->
        [max_attempts |-> IF c = "c1" THEN k1.max_attempts ELSE k2.max_attempts,
         allowed_classes |-> IF c = "c1" THEN k1.allowed_classes ELSE k2.allowed_classes,
         teacher_id |-> ChatbotOwner[c]]] :
      k1 \in ChatbotConfigs, k2 \in SecondChatbotConfigs}

Init ==
    /\ chatbots \in ChatbotRows
    /\ student_sessions = {}
    /\ nextId = 1
    /\ gate = [r \in Requests |-> IdleGate]
    /\ reset = IdleReset
    /\ lastAttempts = [s \in Students |-> [c \in Chatbots |-> 0]]
    /\ lastReset = Null
    /\ observeResets = FALSE
    /\ student_goal_responses = {}
    /\ evaluation = IdleEval
    /\ InitMore

Next ==
    \/ \E r \in Requests : GateStart(r)
    \/ \E r \in Requests : GateCount(r)
    \/ \E r \in Requests : GateInsert(r)
    \/ \E r \in Requests : GateRespond(r)
    \/ ResetStart
    \/ ResetStudents
    \/ ResetDelete
    \/ ResetRespond

Spec == Init /\ [][Next]_vars

\* requests one at a time: a request starts only when no other is in flight
NoneInFlight == ~ResetInFlight /\ \A r \in Requests : ~GateInFlight(r)

SeqGateStart(r) == NoneInFlight /\ GateStart(r)
SeqResetStart == NoneInFlight /\ ResetStart

NextSeq ==
    \/ \E r \in Requests : SeqGateStart(r)
    \/ \E r \in Requests : GateCount(r)
    \/ \E r \in Requests : GateInsert(r)
    \/ \E r \in Requests : GateRespond(r)
    \/ SeqResetStart
    \/ ResetStudents
    \/ ResetDelete
    \/ ResetRespond

SpecSeq == Init /\ [][NextSeq]_vars

\* the same, with the resets observed
InitObserved ==
    /\ chatbots \in ChatbotRows
    /\ student_sessions = {}
    /\ nextId = 1
    /\ gate = [r \in Requests |-> IdleGate]
    /\ reset = IdleReset
    /\ lastAttempts = [s \in Students |-> [c \in Chatbots |-> 0]]
    /\ lastReset = Null
    /\ observeResets = TRUE
    /\ student_goal_responses = {}
    /\ evaluation = IdleEval
    /\ InitMore

SpecSeqObserved == InitObserved /\ [][NextSeq]_vars

\* the evaluations of a teacher's sessions: three sessions exist, of "s1" and
\* "s2" with "c1" and of "s1" with "c2", each let in by an unrestricted chatbot
InitEval ==
    /\ chatbots = [c \in Chatbots |->
            [max_attempts |-> Null, allowed_classes |-> NullArray, teacher_id |-> ChatbotOwner[c]]]
    /\ student_sessions = {NewSession(1, "s1", "c1"), NewSession(2, "s2", "c1"),
                           NewSession(3, "s1", "c2")}
    /\ nextId = 4
    /\ gate = [r \in Requests |-> IdleGate]
    /\ reset = IdleReset
    /\ lastAttempts = [s \in Students |-> [c \in Chatbots |->
            IF <<s, c>> \in {<<"s1", "c1">>, <<"s2", "c1">>, <<"s1", "c2">>}
            THEN CurrentAttempts(0) ELSE 0]]
    /\ lastReset = Null
    /\ observeResets = FALSE
    /\ student_goal_responses = {}
    /\ evaluation = IdleEval
    /\ InitMore

NextEval ==
    \/ EvalStart
    \/ EvalLLM
    \/ EvalUpsert
    \/ EvalRespond

SpecEval == InitEval /\ [][NextEval]_vars

\* the goals listing over every configuration of the chatbots
NextGoals ==
    \/ GoalsGet
    \/ GoalsRespond

SpecGoals == Init /\ [][NextGoals]_vars

\* the evaluations of one session of "s1" with "c1", interleaved with the
\* student's self-checks
InitResponses ==
    /\ chatbots = [c \in Chatbots |->
            [max_attempts |-> Null, allowed_classes |-> NullArray, teacher_id |-> ChatbotOwner[c]]]
    /\ student_sessions = {NewSession(1, "s1", "c1")}
    /\ nextId = 2
    /\ gate = [r \in Requests |-> IdleGate]
    /\ reset = IdleReset
    /\ lastAttempts = [s \in Students |-> [c \in Chatbots |->
            IF <<s, c>> = <<"s1", "c1">> THEN CurrentAttempts(0) ELSE 0]]
    /\ lastReset = Null
    /\ observeResets = FALSE
    /\ student_goal_responses = {}
    /\ evaluation = IdleEval
    /\ InitMore

NextResponses ==
    \/ EvalStart
    \/ EvalLLM
    \/ EvalUpsert
    \/ EvalRespond
    \/ SelfCheckPost
    \/ SelfCheckRespond

SpecResponses == InitResponses /\ [][NextResponses]_vars

\* the creations and the deletions of student accounts
NextAccounts ==
    \/ CreateStart
    \/ CreateExisting
    \/ CreateProfile
    \/ CreateCleanup
    \/ CreateRespond
    \/ DeleteStart
    \/ DeleteProfile
    \/ DeleteAuth
    \/ DeleteRespond

SpecAccounts == InitEval /\ [][NextAccounts]_vars

\* the imports of one teacher, two at once
NextImports ==
    \/ \E i \in Importers : ImportFetch(i)
    \/ \E i \in Importers : ImportInsert(i)
    \/ \E i \in Importers : ImportRespond(i)

SpecImports == InitEval /\ [][NextImports]_vars

\* the logins, while one import adds students
NextLogin ==
    \/ Login
    \/ LoginRespond
    \/ ImportFetch("i1")
    \/ ImportInsert("i1")
    \/ ImportRespond("i1")

SpecLogin == InitEval /\ [][NextLogin]_vars

\* the uploads of reference files
NextUpload ==
    \/ UploadStart
    \/ UploadStorage
    \/ UploadInsert
    \/ UploadCleanup
    \/ UploadRespond

SpecUpload == InitEval /\ [][NextUpload]_vars

\* the creations and the updates of chatbots, two at once
NextSlugs ==
    \/ \E r \in SlugRequests : SlugCreateStart(r)
    \/ \E r \in SlugRequests : SlugInsert(r)
    \/ \E r \in SlugRequests : SlugUpdateStart(r)
    \/ \E r \in SlugRequests : SlugUpdate(r)
    \/ \E r \in SlugRequests : SlugRespond(r)

SpecSlugs == InitEval /\ [][NextSlugs]_vars

\* ---- properties ----

Done(r) == gate[r].pc = "done"

\* the request found its profile and its chatbot, so the class check ran
ClassChecked(r) ==
    /\ gate[r].pc # "idle"
    /\ Len(gate[r].calls) >= 3
    /\ gate[r].reason # "ChatbotNotFound"

\* the request counted the sessions and the data store did not fail
QuotaDecided(r) ==
    /\ Done(r)
    /\ Len(gate[r].calls) >= 4
    /\ gate[r].calls[4] = "count"
    /\ ~gate[r].storeErr

Configured(r) == chatbots[gate[r].chatbotId]
RowsOfRequest(r) == CountSessions(student_sessions, Val(gate[r].studentId), gate[r].chatbotId)
ClassDenials == {"ClassInfoMissing", "ClassNotAllowed"}

\* C1: for every student and every chatbot with a non-null maxAttempts M, the
\* number of student_sessions rows of the pair never exceeds M, also when
\* requests of the same student run concurrently.
QuotaNeverExceeded ==
    \A s \in Students, c \in Chatbots :
        ~IsNull(chatbots[c].max_attempts) =>
            CountSessions(student_sessions, s, c) <= Val(chatbots[c].max_attempts)

\* C2: with requests one at a time, a class-admitted request on a chatbot with
\* maxAttempts M > 0 is answered 201 iff fewer than M rows of the pair existed
\* before it, and 429 QuotaExceeded otherwise.
SequentialQuotaDecision ==
    \A r \in Requests :
        (QuotaDecided(r) /\ Val(Configured(r).max_attempts) > 0) =>
            LET existing == RowsOfRequest(r) - (IF gate[r].status = 201 THEN 1 ELSE 0) IN
            IF existing < Val(Configured(r).max_attempts)
            THEN gate[r].status = 201
            ELSE gate[r].status = 429 /\ gate[r].reason = "QuotaExceeded"

SequentialQuotaDecisionWitness ==
    \E r \in Requests :
        /\ QuotaDecided(r)
        /\ Configured(r).max_attempts = Some(2)
        /\ gate[r].currentUsageCount = 2
        /\ gate[r].status = 429

UnlimitedCountsUp ==
    \A r \in Requests :
        (Done(r) /\ ClassChecked(r) /\ IsNull(Configured(r).max_attempts)
            /\ gate[r].reason \notin ClassDenials /\ ~gate[r].storeErr) =>
            /\ gate[r].status = 201
            /\ gate[r].prevAttempts > 0 => gate[r].current_attempts = gate[r].prevAttempts + 1

\* C5: when allowedClasses is null or the empty list the class check is skipped:
\* no student, with or without a class, is denied for a class reason.
OpenAllowlistSkipsClassCheck ==
    \A r \in Requests :
        (ClassChecked(r) /\ (Configured(r).allowed_classes.null
                             \/ Configured(r).allowed_classes.items = {})) =>
            gate[r].reason \notin ClassDenials

\* C6: when allowedClasses is non-empty and the student has a class, the request
\* is answered 403 ClassNotAllowed without counting or inserting if the class is
\* not in the list, and passes the class check if it is.
RestrictedAllowlist ==
    \A r \in Requests :
        (ClassChecked(r) /\ ~Configured(r).allowed_classes.null
            /\ Configured(r).allowed_classes.items # {}
            /\ ~IsNull(gate[r].studentClassId)) =>
            IF Val(gate[r].studentClassId) \notin Configured(r).allowed_classes.items
            THEN /\ Done(r)
                 /\ gate[r].status = 403
                 /\ gate[r].reason = "ClassNotAllowed"
                 /\ gate[r].session = Null
                 /\ gate[r].calls = <<"auth", "profiles", "chatbots">>
            ELSE gate[r].reason \notin ClassDenials

RestrictedAllowlistWitness ==
    \E r \in Requests :
        /\ ClassChecked(r)
        /\ Configured(r).allowed_classes = Array({"B"})
        /\ gate[r].studentClassId = Some("A")
        /\ gate[r].reason = "ClassNotAllowed"

\* C7: when allowedClasses is non-empty and the student has no class, the
\* request is answered 403 ClassInfoMissing, not ClassNotAllowed, without
\* counting or inserting.
MissingClassDenied ==
    \A r \in Requests :
        (ClassChecked(r) /\ ~Configured(r).allowed_classes.null
            /\ Configured(r).allowed_classes.items # {}
            /\ IsNull(gate[r].studentClassId)) =>
            /\ Done(r)
            /\ gate[r].status = 403
            /\ gate[r].reason = "ClassInfoMissing"
            /\ gate[r].session = Null
            /\ gate[r].calls = <<"auth", "profiles", "chatbots">>

MissingClassDeniedWitness ==
    \E r \in Requests :
        /\ ClassChecked(r)
        /\ Configured(r).allowed_classes = Array({"A"})
        /\ IsNull(gate[r].studentClassId)
        /\ gate[r].reason = "ClassInfoMissing"

\* C8: with requests one at a time, the first call of a student for a chatbot
\* after a completed scope=student reset of the pair returns current_attempts 1
\* whenever it succeeds, however many rows the reset deleted.
FirstCallAfterReset ==
    \A r \in Requests :
        (Done(r) /\ ~IsNull(gate[r].afterReset) /\ gate[r].status = 201) =>
            gate[r].current_attempts = 1

FirstCallAfterResetWitness ==
    \E r \in Requests :
        /\ Done(r)
        /\ ~IsNull(gate[r].afterReset)
        /\ Val(gate[r].afterReset).deleted = 2
        /\ Configured(r).max_attempts = Some(2)
        /\ gate[r].status = 201
        /\ gate[r].current_attempts = 1

\* C9: with requests one at a time and a non-null maxAttempts, a 201 carries
\* current_attempts = the rows of the pair including the new one (the count
\* before the insert plus 1) and max_attempts = the configured maxAttempts.
SuccessReportsUsage ==
    \A r \in Requests :
        (Done(r) /\ gate[r].status = 201 /\ ~IsNull(Configured(r).max_attempts)) =>
            /\ gate[r].current_attempts = gate[r].currentUsageCount + 1
            /\ gate[r].current_attempts = RowsOfRequest(r)
            /\ gate[r].max_attempts = Configured(r).max_attempts

SuccessReportsUsageWitness ==
    \E r \in Requests :
        /\ Done(r)
        /\ gate[r].status = 201
        /\ Configured(r).max_attempts = Some(2)
        /\ gate[r].currentUsageCount = 1
        /\ gate[r].current_attempts = 2

\* C10: a step of a gate request changes student_sessions only by adding one
\* new row for the request's student and chatbot, in the step that answers 201;
\* every other step of a gate request, so every denial, leaves the table as it was.
GateStepFrame(r) ==
    IF gate'[r].pc = "done" /\ gate'[r].status = 201
    THEN LET row == Val(gate'[r].session) IN
         /\ row \notin student_sessions
         /\ \A old \in student_sessions : old.id # row.id
         /\ row.student_id = Val(gate[r].studentId)
         /\ row.chatbot_id = gate[r].chatbotId
         /\ student_sessions' = student_sessions \cup {row}
    ELSE student_sessions' = student_sessions

GateFrame == [][\A r \in Requests : gate'[r] # gate[r] => GateStepFrame(r)]_vars

GateFrameWitness ==
    \E r \in Requests :
        /\ Done(r)
        /\ gate[r].status = 201
        /\ Val(gate[r].session) \in student_sessions
        /\ Cardinality(student_sessions) >= 2

\* C11: the gate's checks run in the order credential (401), profile (403
\* ProfileNotFound), chatbot (404 ChatbotNotFound), class allowlist (403), quota
\* (429); the first failing check answers and nothing is looked up after it.  A
\* student of a disallowed class whose quota is also exhausted gets 403
\* ClassNotAllowed, never 429, and the usage count is not queried.
IsPrefix(a, b) == Len(a) <= Len(b) /\ \A i \in 1..Len(a) : a[i] = b[i]

LookupOrders ==
    {<<"auth", "profiles", "chatbots", "count", "insert">>,
     <<"auth", "profiles", "chatbots", "insert">>}

QuotaExhausted(r) ==
    /\ ~IsNull(Configured(r).max_attempts)
    /\ RowsOfRequest(r) >= Val(Configured(r).max_attempts)

ChecksInOrder ==
    \A r \in Requests :
        LET g == gate[r] IN
        /\ \E order \in LookupOrders : IsPrefix(g.calls, order)
        /\ Done(r) =>
             /\ g.status = 401 <=> g.reason = "Unauthenticated"
             /\ g.status = 404 <=> g.reason = "ChatbotNotFound"
             /\ g.status = 403 <=> g.reason \in ClassDenials \cup {"ProfileNotFound"}
             /\ g.status = 429 <=> g.reason = "QuotaExceeded"
             /\ g.reason = "Unauthenticated" => IsNull(g.user) /\ Len(g.calls) <= 1
             /\ g.reason = "ProfileNotFound" => g.calls = <<"auth", "profiles">>
             /\ g.reason = "ChatbotNotFound" => g.calls = <<"auth", "profiles", "chatbots">>
             /\ g.reason \in ClassDenials => g.calls = <<"auth", "profiles", "chatbots">>
             /\ g.reason = "QuotaExceeded" => g.calls = <<"auth", "profiles", "chatbots", "count">>
             \* the first check that fails is the one that answers
             /\ (~IsNull(g.user) /\ Val(g.user) \notin DOMAIN profiles) =>
                    g.reason = "ProfileNotFound"
             /\ (~IsNull(g.studentId) /\ g.chatbotId \notin DOMAIN chatbots) =>
                    g.reason = "ChatbotNotFound"
             /\ (ClassChecked(r) /\ ~IsNull(g.studentClassId)
                   /\ ~Configured(r).allowed_classes.null
                   /\ Val(g.studentClassId) \notin Configured(r).allowed_classes.items
                   /\ QuotaExhausted(r)) =>
                    /\ g.status = 403
                    /\ g.reason = "ClassNotAllowed"
                    /\ g.calls = <<"auth", "profiles", "chatbots">>

ChecksInOrderWitness ==
    \E r \in Requests :
        /\ Done(r)
        /\ gate[r].studentClassId = Some("A")
        /\ gate[r].chatbotId \in DOMAIN chatbots
        /\ Configured(r).allowed_classes = Array({"B"})
        /\ QuotaExhausted(r)
        /\ gate[r].status = 403
        /\ gate[r].reason = "ClassNotAllowed"
        /\ gate[r].calls = <<"auth", "profiles", "chatbots">>

\* ---- properties of the reset ----

RowsOf(rows, s, c) == CountSessions(rows, s, c)

\* the reset request is the chatbot's owner, as stored
ResetByOwner(q) ==
    /\ ~IsNull(q.user)
    /\ q.chatbotId \in DOMAIN chatbots
    /\ chatbots[q.chatbotId].teacher_id = Val(q.user)

\* the student is in the named class and belongs to the teacher
InClassOf(s, teacher, className) ==
    /\ s \in DOMAIN students
    /\ students[s].teacher_id = teacher
    /\ students[s].class_name = className

\* the scope of the reset request covers the pair (s, c)
ScopeCovers(q, s, c) ==
    /\ c = q.chatbotId
    /\ q.scope = "student" => s = Val(q.studentId)
    /\ q.scope = "class" => InClassOf(s, Val(q.user), q.className)

\* this step is the reset's delete, answered 200
ResetDeleted == reset.pc = "delete" /\ reset'.pc = "done" /\ reset'.status = 200

\* this step answers the reset with 200
ResetSucceeds == reset.pc \in {"students", "delete"} /\ reset'.pc = "done" /\ reset'.status = 200

\* some row has been deleted: ids are handed out in order and never reused
SomeRowDeleted == Cardinality(student_sessions) < nextId - 1

\* C12: the number of student_sessions rows of a (student, chatbot) pair never
\* decreases in a step that is not the delete of a manage-attempts reset whose
\* scope covers the pair.
RowsDecreaseOnlyByReset ==
    [][\A s \in Students, c \in Chatbots :
          RowsOf(student_sessions', s, c) < RowsOf(student_sessions, s, c) =>
              ResetDeleted /\ ScopeCovers(reset, s, c)]_vars

RowsDecreaseOnlyByResetWitness ==
    /\ reset.pc = "done"
    /\ reset.status = 200
    /\ SomeRowDeleted
    /\ \E row \in student_sessions : ~ScopeCovers(reset, row.student_id, row.chatbot_id)
    /\ \A row \in student_sessions : ~ScopeCovers(reset, row.student_id, row.chatbot_id)

\* C13: a successful reset with scope=student and studentId S on chatbot C
\* deletes every row of (C, S) and leaves every other row as it was.
StudentResetFrame ==
    [][(ResetSucceeds /\ reset.scope = "student") =>
          student_sessions' =
              {row \in student_sessions :
                  ~(row.chatbot_id = reset.chatbotId /\ row.student_id = Val(reset.studentId))}]_vars

StudentResetFrameWitness ==
    /\ reset.pc = "done"
    /\ reset.status = 200
    /\ reset.scope = "student"
    /\ SomeRowDeleted
    /\ RowsOf(student_sessions, Val(reset.studentId), reset.chatbotId) = 0
    /\ \E row \in student_sessions :
          row.chatbot_id = reset.chatbotId /\ row.student_id # Val(reset.studentId)

\* C14: a successful reset with scope=class and className N on chatbot C deletes
\* exactly the rows of C whose student is in class N and belongs to the
\* requesting teacher; every other row is unchanged; when there is no such
\* student nothing is deleted and the answer is still 200.
ClassResetFrame ==
    [][(reset.scope = "class" /\ reset.pc \in {"students", "delete"}) =>
          /\ ResetSucceeds =>
               student_sessions' =
                   {row \in student_sessions :
                       ~(/\ row.chatbot_id = reset.chatbotId
                         /\ InClassOf(row.student_id, Val(reset.user), reset.className))}
          /\ (reset.pc = "students" /\ reset' # reset /\ ~reset'.storeErr
                /\ \A s \in Students : ~InClassOf(s, Val(reset.user), reset.className)) =>
               /\ ResetSucceeds
               /\ student_sessions' = student_sessions]_vars

ClassResetFrameWitness ==
    /\ reset.pc = "done"
    /\ reset.status = 200
    /\ reset.scope = "class"
    /\ reset.studentIds # {}
    /\ SomeRowDeleted
    /\ \E row \in student_sessions :
          row.chatbot_id = reset.chatbotId /\ row.student_id \notin reset.studentIds

\* the class has no student of the requesting teacher, while a student of
\* another teacher in a class of that name has a row of the chatbot
ClassResetNoStudents ==
    /\ reset.pc = "done"
    /\ reset.status = 200
    /\ reset.scope = "class"
    /\ reset.studentIds = {}
    /\ \E row \in student_sessions :
          /\ row.chatbot_id = reset.chatbotId
          /\ students[row.student_id].class_name = reset.className

\* C15: a successful reset with scope=chatbot on chatbot C deletes every row of
\* C, for all students, and leaves the rows of every other chatbot unchanged.
ChatbotResetFrame ==
    [][(ResetSucceeds /\ reset.scope = "chatbot") =>
          student_sessions' =
              {row \in student_sessions : row.chatbot_id # reset.chatbotId}]_vars

ChatbotResetFrameWitness ==
    /\ reset.pc = "done"
    /\ reset.status = 200
    /\ reset.scope = "chatbot"
    /\ SomeRowDeleted
    /\ \A row \in student_sessions : row.chatbot_id # reset.chatbotId
    /\ student_sessions # {}

\* C16: manage-attempts deletes rows only for the chatbot's owner as stored: an
\* unauthenticated request gets 401, an unknown chatbot 404, a non-owner 403,
\* and none of them deletes a row, whatever the body carries.
OwnerOnlyReset ==
    [][/\ ~(student_sessions \subseteq student_sessions') => ResetByOwner(reset)
       /\ reset'.pc \in {"students", "delete"} => ResetByOwner(reset')
       /\ (reset.pc = "idle" /\ reset'.pc # "idle") =>
            /\ student_sessions' = student_sessions
            /\ IsNull(reset'.user) => reset'.pc = "done" /\ reset'.status = 401
            /\ (~IsNull(reset'.user) /\ reset'.chatbotId \notin DOMAIN chatbots) =>
                  reset'.pc = "done" /\ reset'.status = 404
            /\ (~IsNull(reset'.user) /\ reset'.chatbotId \in DOMAIN chatbots
                  /\ ~reset'.storeErr /\ ~ResetByOwner(reset')) =>
                  reset'.pc = "done" /\ reset'.status = 403]_vars

OwnerOnlyResetWitness ==
    /\ reset.pc = "done"
    /\ reset.status = 403
    /\ ~ResetByOwner(reset)
    /\ \E row \in student_sessions : row.chatbot_id = reset.chatbotId

\* C17: the owner's request with scope=student and no studentId, scope=class and
\* no className, or a scope outside {student, class, chatbot} is answered 400
\* and deletes nothing; a malformed scoped request never reaches the delete.
MalformedBody(q) ==
    \/ q.scope \notin {"student", "class", "chatbot"}
    \/ q.scope = "student" /\ IsNull(q.studentId)
    \/ q.scope = "class" /\ IsNull(q.className)

MalformedResetRejected ==
    [][/\ (reset.pc = "idle" /\ reset'.pc # "idle" /\ ResetByOwner(reset') /\ ~reset'.storeErr
             /\ MalformedBody(reset')) =>
            /\ reset'.pc = "done"
            /\ reset'.status = 400
            /\ student_sessions' = student_sessions
       /\ reset'.pc \in {"students", "delete"} => ~MalformedBody(reset')
       /\ reset.status = 400 => student_sessions' = student_sessions]_vars

MalformedResetRejectedWitness ==
    /\ reset.pc = "done"
    /\ reset.status = 400
    /\ reset.scope = "student"
    /\ IsNull(reset.studentId)
    /\ ResetByOwner(reset)
    /\ \E row \in student_sessions : row.chatbot_id = reset.chatbotId

\* ---- properties of the goal evaluation ----

KeyOf(row) == <<row.student_id, row.chatbot_id, row.goal_id>>

\* the key of the i-th result of the evaluation request e
ResultKey(e, i) == <<Val(e.studentId), e.chatbotId, e.evaluationResults[i].goal_id>>

\* the goal ids the evaluation request e got results for
ResultGoals(e) == {e.evaluationResults[i].goal_id : i \in 1..Len(e.evaluationResults)}

\* this step is the upsert of the evaluation, answered 200
EvalStored == evaluation.pc = "upsert" /\ evaluation'.pc = "done" /\ evaluation'.status = 200

\* the request ended with the evaluation stored
Evaluated == evaluation.pc = "done" /\ evaluation.status = 200 /\ evaluation.reason = "Evaluated"

\* C18: goal results are keyed by (student, chatbot, goal): there is at most one
\* stored result per key, and an evaluation of a key that has a result replaces
\* its verdict and reason: the stored value is the latest evaluation's, and the
\* results of the other keys stay.
GoalResultsKeyed ==
    [][/\ \A a, b \in student_goal_responses' : KeyOf(a) = KeyOf(b) => a = b
       /\ EvalStored =>
            /\ \A i \in 1..Len(evaluation.evaluationResults) :
                  /\ \E row \in student_goal_responses' : KeyOf(row) = ResultKey(evaluation, i)
                  /\ \A row \in student_goal_responses' :
                        KeyOf(row) = ResultKey(evaluation, i) =>
                            /\ row.evaluated_by_ai = Some(evaluation.evaluationResults[i].achieved)
                            /\ row.evaluation_comment = Some(evaluation.evaluationResults[i].reason)
            /\ \A row \in student_goal_responses \cup student_goal_responses' :
                  (\A i \in 1..Len(evaluation.evaluationResults) :
                        KeyOf(row) # ResultKey(evaluation, i)) =>
                      row \in student_goal_responses \cap student_goal_responses']_vars

GoalResultsKeyedWitness ==
    /\ Evaluated
    /\ \E old \in evaluation.overwritten, new \in student_goal_responses :
          /\ KeyOf(old) = KeyOf(new)
          /\ old.evaluated_by_ai # new.evaluated_by_ai
          /\ old.evaluation_comment # new.evaluation_comment
    /\ \E other \in student_goal_responses : other.student_id # Val(evaluation.studentId)

\* C19: a successful evaluation of a session stores and returns a result for
\* exactly the learning goals of the session's chatbot: none is missing and none
\* is a goal of another chatbot, whatever array the LLM returns.
EvaluatesEveryGoal ==
    Evaluated =>
        /\ ResultGoals(evaluation) = GoalsOf(evaluation.chatbotId)
        /\ \A g \in GoalsOf(evaluation.chatbotId) :
              \E row \in student_goal_responses :
                  KeyOf(row) = <<Val(evaluation.studentId), evaluation.chatbotId, g>>
        /\ \A row \in student_goal_responses :
              (row.student_id = Val(evaluation.studentId)
                  /\ row.chatbot_id = evaluation.chatbotId) =>
                  row.goal_id \in GoalsOf(evaluation.chatbotId)

\* C20: a request calls the LLM at most once; when the call fails, returns no
\* content, or returns JSON that is neither an array nor an object with an
\* evaluations array, the request ends with 500 and the stored results are
\* unchanged.
FailedReplies == {"throws", "empty", "invalid", "other"}

SingleCallOrFailure ==
    [][/\ evaluation'.llmCalls <= 1
       /\ evaluation'.llmCalls # evaluation.llmCalls =>
             evaluation.pc = "llm" \/ evaluation'.pc = "idle"
       /\ (evaluation.pc = "llm" /\ evaluation' # evaluation) =>
            /\ evaluation'.llmCalls = 1
            /\ student_goal_responses' = student_goal_responses
            /\ evaluation'.llm \in FailedReplies =>
                  evaluation'.pc = "done" /\ evaluation'.status = 500
       /\ evaluation'.pc = "upsert" => evaluation'.llm \notin FailedReplies
       /\ evaluation'.status = 500 => student_goal_responses' = student_goal_responses
       /\ student_goal_responses' # student_goal_responses =>
             evaluation.llmCalls = 1 /\ evaluation.llm \notin FailedReplies]_vars

SingleCallOrFailureWitness ==
    /\ evaluation.pc = "done"
    /\ evaluation.status = 500
    /\ evaluation.llm = "other"
    /\ evaluation.llmCalls = 1
    /\ student_goal_responses # {}

\* ---- properties of the gate's failures and of the evaluation's access ----

CallsOf(r, what) == Cardinality({i \in 1..Len(gate[r].calls) : gate[r].calls[i] = what})
CallsAfter(r, what) == Cardinality({i \in 1..Len(gate'[r].calls) : gate'[r].calls[i] = what})

\* C25: a data-store failure in the gate is terminal and not retried: a failed
\* count answers 500 without an insert, a failed insert answers 500; the rows of
\* the pair are the same as before, and a request counts at most once and
\* inserts at most once.
StoreFailureTerminal ==
    [][\A r \in Requests :
          gate'[r] # gate[r] =>
              /\ CallsAfter(r, "count") <= 1
              /\ CallsAfter(r, "insert") <= 1
              /\ (gate[r].pc = "count" /\ gate'[r].storeErr) =>
                    /\ gate'[r].pc = "done"
                    /\ gate'[r].status = 500
                    /\ CallsAfter(r, "insert") = 0
                    /\ student_sessions' = student_sessions
              /\ (gate[r].pc = "insert" /\ gate'[r].storeErr) =>
                    /\ gate'[r].pc = "done"
                    /\ gate'[r].status = 500
                    /\ gate'[r].session = Null
                    /\ student_sessions' = student_sessions
              /\ gate'[r].status = 500 =>
                    /\ gate'[r].storeErr
                    /\ student_sessions' = student_sessions]_vars

StoreFailureTerminalWitness ==
    \E r \in Requests :
        /\ Done(r)
        /\ gate[r].status = 500
        /\ gate[r].storeErr
        /\ gate[r].calls = <<"auth", "profiles", "chatbots", "count">>
        /\ RowsOfRequest(r) = 1
        /\ Configured(r).max_attempts = Some(2)

\* the insert failed after a count that succeeded
InsertFailureReached ==
    \E r \in Requests :
        /\ Done(r)
        /\ gate[r].status = 500
        /\ gate[r].calls = <<"auth", "profiles", "chatbots", "count", "insert">>
        /\ RowsOfRequest(r) = gate[r].currentUsageCount

\* the evaluation request names a stored session
SessionOf(e) == {row \in student_sessions : row.id = e.sessionId}

\* the requester of the evaluation owns the chatbot of its session
EvalByOwner(e) ==
    /\ ~IsNull(e.user)
    /\ \E row \in SessionOf(e) : chatbots[row.chatbot_id].teacher_id = Val(e.user)

\* C27: goal evaluation is performed only for the chatbot's owner: a request of
\* another user is answered 403 before any LLM call and writes no result; an
\* unknown session is answered 404, likewise without an LLM call or a write.
EvaluationOwnerOnly ==
    [][/\ evaluation'.pc \in {"llm", "upsert"} => EvalByOwner(evaluation')
       /\ evaluation'.llmCalls > 0 => EvalByOwner(evaluation')
       /\ student_goal_responses' # student_goal_responses => EvalByOwner(evaluation)
       /\ (evaluation.pc = "idle" /\ evaluation'.pc # "idle"
             /\ ~IsNull(evaluation'.user) /\ evaluation'.reason # "InvalidInput") =>
            /\ SessionOf(evaluation') = {} =>
                  /\ evaluation'.pc = "done"
                  /\ evaluation'.status = 404
                  /\ evaluation'.llmCalls = 0
                  /\ student_goal_responses' = student_goal_responses
            /\ (SessionOf(evaluation') # {} /\ ~evaluation'.storeErr
                  /\ ~EvalByOwner(evaluation')) =>
                  /\ evaluation'.pc = "done"
                  /\ evaluation'.status = 403
                  /\ evaluation'.llmCalls = 0
                  /\ student_goal_responses' = student_goal_responses]_vars

EvaluationOwnerOnlyWitness ==
    /\ evaluation.pc = "done"
    /\ evaluation.status = 403
    /\ SessionOf(evaluation) # {}
    /\ ~EvalByOwner(evaluation)
    /\ evaluation.llmCalls = 0
    /\ student_goal_responses # {}

\* ---- properties of the goals listing ----

\* C26: the class-access decision is the same at every student-facing endpoint:
\* the goals listing admits a student whenever the gate's class-allowlist check
\* admits them; a chatbot whose allowed_classes is null is unrestricted at both.
ClassAccessAgrees ==
    (goals.pc = "done" /\ goals.found) =>
        LET allowed == chatbots[goals.chatbotId].allowed_classes IN
        /\ ClassCheck(allowed, goals.studentClassName) = "ok" => goals.reason # "AccessDenied"
        /\ allowed.null => goals.reason # "AccessDenied"

\* ---- properties of the two writers of student_goal_responses ----

\* the row of the table with the key of the given row, if any
RowsWithKey(table, row) == {old \in table : KeyOf(old) = KeyOf(row)}

\* this step is the self-check's upsert, answered 200
CheckStored == selfcheck.pc = "idle" /\ selfcheck'.pc = "done" /\ selfcheck'.status = 200

\* the last value the self-check request q gives for the goal, if it gives one
CheckedValues(q, g) == {q.responses[i].checked : i \in {j \in 1..Len(q.responses) : q.responses[j].goalId = g}}

\* C28: the AI evaluation and the student's self-check write disjoint fields of
\* the (student, chatbot, goal) row: the evaluation's upsert leaves
\* checked_by_student as it was, the self-check's upsert leaves evaluated_by_ai
\* and evaluation_comment as they were, and each writes its own field, so under
\* any interleaving the row holds the latest value of each field.
DisjointFields ==
    [][/\ EvalStored =>
            \A row \in student_goal_responses' :
                /\ \A old \in RowsWithKey(student_goal_responses, row) :
                      row.checked_by_student = old.checked_by_student
                /\ RowsWithKey(student_goal_responses, row) = {} =>
                      row.checked_by_student = Null
       /\ CheckStored =>
            /\ \A row \in student_goal_responses' :
                /\ \A old \in RowsWithKey(student_goal_responses, row) :
                      /\ row.evaluated_by_ai = old.evaluated_by_ai
                      /\ row.evaluation_comment = old.evaluation_comment
                /\ RowsWithKey(student_goal_responses, row) = {} =>
                      row.evaluated_by_ai = Null /\ row.evaluation_comment = Null
                /\ (row.student_id = Val(selfcheck'.studentId)
                      /\ row.chatbot_id = selfcheck'.chatbotId
                      /\ CheckedValues(selfcheck', row.goal_id) # {}) =>
                      row.checked_by_student = Some(CHOOSE v \in CheckedValues(selfcheck', row.goal_id) : TRUE)
            /\ \A old \in student_goal_responses :
                  RowsWithKey(student_goal_responses', old) # {}
       /\ \A a, b \in student_goal_responses' : KeyOf(a) = KeyOf(b) => a = b]_vars

\* a row holds a verdict of the evaluation and a check of the student, and the
\* self-check has just been stored over an evaluated row
DisjointFieldsWitness ==
    /\ selfcheck.pc = "done"
    /\ selfcheck.status = 200
    /\ \E row \in student_goal_responses :
          /\ row.evaluated_by_ai = Some(TRUE)
          /\ row.evaluation_comment = Some("met")
          /\ row.checked_by_student = Some(FALSE)
          /\ CheckedValues(selfcheck, row.goal_id) = {FALSE}
    /\ evaluation.pc = "upsert"

\* the evaluation has just been stored over a row the student had checked
EvaluationKeepsCheck ==
    /\ Evaluated
    /\ \E row \in student_goal_responses, old \in evaluation.overwritten :
          /\ KeyOf(row) = KeyOf(old)
          /\ old.checked_by_student = Some(TRUE)
          /\ IsNull(old.evaluated_by_ai)
          /\ row.checked_by_student = Some(TRUE)
          /\ row.evaluated_by_ai = Some(FALSE)

\* ---- properties of the student accounts ----

\* C21: when the teacher's DELETE of a student answers 204, neither the
\* student's profile row nor the student's auth user exists, also when the
\* auth-user deletion step reported an error.
DeletedCompletely ==
    [][(deletion.pc = "auth" /\ deletion'.pc = "done" /\ deletion'.status = 204) =>
            /\ \A row \in profile_rows' : row.id # deletion.profileId
            /\ Val(deletion.userId) \notin auth_users']_vars

\* C30: whenever createSingleStudent returns an error after the auth user was
\* created (the profile insert failed), the auth user that call created has
\* been removed.
CleanupRemovesUser ==
    [][(creation.pc = "cleanup" /\ creation'.pc = "done") =>
            /\ creation'.status = 500
            /\ Val(creation.userId) \notin auth_users']_vars

\* ---- properties of the students table ----

\* the rows the login's lookup finds for the number
LoginRows(q) == {r \in student_rows : r.student_number = q.studentNumber}

\* this step is a login with a well-formed body
LoggedIn == login.pc = "idle" /\ login'.pc = "done" /\ login'.studentNumber # ""

LoginUnknownRejected ==
    /\ login.pc = "done"
    /\ ~login.compared
    /\ ~login.fetchErr
    /\ login.studentNumber = "n3"
    /\ login.response = NotFoundResponse

\* C24: the bulk import never inserts a student number the teacher already
\* has nor the same number twice from one file, so after any imports, also
\* two of the same teacher at once, no two students of a teacher share a
\* student number.
NoSharedNumbers ==
    \A a, b \in student_rows :
        (a.teacher_id = b.teacher_id /\ a.student_number = b.student_number) => a = b

\* ---- properties of the reference files ----

\* the user is authenticated, is a teacher and owns the chatbot
MayUpload(user, chatbotId) ==
    /\ user \in Teachers
    /\ chatbotId \in Chatbots
    /\ chatbots[chatbotId].teacher_id = user

SlugWritten(r) == slugReq[r].pc \in {"insert", "update"} /\ slugReq'[r].pc = "done"

\* the slug of the request r is held by another chatbot
SlugTaken(r) ==
    /\ slugReq[r].given
    /\ ~IsNull(slugReq[r].slug)
    /\ SlugHolders(Val(slugReq[r].slug), slugReq[r].id) # {}

====
